---- MODULE Spec2Model ----
(***************************************************************************)
(* A state-machine model of the fanling engine: the Content Store (a git   *)
(* repository reached through Store and FanlingRepository), the Index (the *)
(* SQLite item table reached through Search), the in-memory item cache of  *)
(* the Store, and the World that orchestrates them.                        *)
(*                                                                         *)
(* Strings of the program (idents, names, paths) are sequences of          *)
(* one-character strings.  A text is a sequence of words.                  *)
(***************************************************************************)
EXTENDS Integers, Sequences, FiniteSets, TLC

\* ---------------------------------------------------------------- bounds
\* total number of commit objects (local and remote) in one behaviour
MaxCommits == 6
\* largest value of the ident counter
MaxIdentNum == 2
\* the most changes that may wait in Store.pending_changes
MaxPending == 2

VARIABLES
    hasUrl,         \* RepoOptions.url is Some
    writeToServer,  \* RepoOptions.write_to_server
    autoLink,       \* EngineOptions.auto_link
    commits,        \* the commit objects: id -> [parents, tree]
    localPath,      \* state of the local repository directory
    localHead,      \* the commit HEAD of the local repository resolves to (0: none)
    headIsBranch,   \* HEAD of the local repository names a local branch
    fetchHead,      \* FETCH_HEAD of the local repository (0: none)
    remoteHead,     \* head of the branch on the server (0: none)
    index,          \* the item table of the Index: ident -> row
    lastIdent,      \* global.last_ident of the Index
    up,             \* an engine (World) is constructed and running
    uniq_pfx,       \* World.uniq_pfx of the running engine
    known,          \* Store.known: ident -> item object
    pending_changes,\* Store.pending_changes
    next_ident_num, \* Store.next_ident_num
    needs_push,     \* FanlingRepository.needs_push
    last            \* what the last operation was and how it ended

vars == <<hasUrl, writeToServer, autoLink, commits, localPath, localHead,
          headIsBranch, fetchHead, remoteHead, index, lastIdent, up, uniq_pfx, known,
          pending_changes, next_ident_num, needs_push, last>>

\* ------------------------------------------------------------ characters
Digits == <<"0", "1", "2", "3", "4", "5", "6", "7", "8", "9">>

Alnum ==
    {"a", "b", "c", "d", "e", "f", "g", "h", "i", "j", "k", "l", "m",
     "n", "o", "p", "q", "r", "s", "t", "u", "v", "w", "x", "y", "z",
     "A", "B", "C", "D", "E", "F", "G", "H", "I", "J", "K", "L", "M",
     "N", "O", "P", "Q", "R", "S", "T", "U", "V", "W", "X", "Y", "Z",
     "0", "1", "2", "3", "4", "5", "6", "7", "8", "9"}

RECURSIVE NumStr(_)
\* format!("{}", n) for a non-negative integer
NumStr(n) ==
    IF n < 10 THEN <<Digits[n + 1]>>
    ELSE NumStr(n \div 10) \o <<Digits[(n % 10) + 1]>>

EmptyFn == [x \in {} |-> x]

\* f with key k bound to v (HashMap::insert, TreeBuilder::insert, INSERT/UPDATE)
Put(f, k, v) == [x \in DOMAIN f \cup {k} |-> IF x = k THEN v ELSE f[x]]

\* f without key k (HashMap::remove, TreeBuilder::remove, DELETE)
Drop(f, k) == [x \in DOMAIN f \ {k} |-> f[x]]

\* the one element of a one-element set.  The({e : r \in {v}}) is e with r
\* bound to v: Rust's "let r = v; e"
The(S) == CHOOSE e \in S : TRUE

\* ---------------------------------------------------------------- idents
default_context == <<"d", "e", "f", "a", "u", "l", "t", "_", "c", "o", "n", "t", "e", "x", "t">>

\* ItemBaseForSerde::default().ident and ItemBase::new().ident
unset_ident == <<"?", "?">>

max_len == 20

\* a faulty replace_all whose pattern lacks the +: every character outside
\* [0-9a-zA-Z] becomes a dash of its own
replace_unallowed_each(s) ==
    [i \in DOMAIN s |-> IF s[i] \in Alnum THEN s[i] ELSE "-"]

RECURSIVE replace_unallowed(_)
\* unallowed_chars.replace_all(name, "-"): every maximal run of characters
\* outside [0-9a-zA-Z] becomes one dash
replace_unallowed(s) ==
    IF s = <<>> THEN <<>>
    ELSE IF Head(s) \in Alnum THEN <<Head(s)>> \o replace_unallowed(Tail(s))
    ELSE IF Len(s) > 1 /\ s[2] \notin Alnum THEN replace_unallowed(Tail(s))
    ELSE <<"-">> \o replace_unallowed(Tail(s))

\* initial_dash.replace(tnx, "")
strip_initial_dash(s) == IF s # <<>> /\ Head(s) = "-" THEN Tail(s) ELSE s

\* Store::make_identifier: [ok, ident, num]; ok = FALSE is a panic, which
\* leaves the counter as it was
make_identifier(pfx, name, num) ==
    LET tidy_name == strip_initial_dash(replace_unallowed(name))
        short_tidy_name ==
            IF Len(tidy_name) < max_len THEN tidy_name
            ELSE SubSeq(tidy_name, 1, max_len)
    IN  IF pfx = <<>> \/ name = <<>> \/ tidy_name = <<>>
           \/ Head(tidy_name) \in {"-", "?"}
        THEN [ok |-> FALSE, ident |-> <<>>, num |-> num]
        ELSE [ok |-> TRUE,
              ident |-> short_tidy_name \o <<"-">> \o pfx \o NumStr(num + 1),
              num |-> num + 1]

page_suffix == <<".", "p", "a", "g", "e">>
item_suffix == <<".", "i", "t", "e", "m">>

\* Store::path_from_ident
path_from_ident(ident) == ident \o page_suffix

\* position of the first "." of p, or 0
FirstDot(p) ==
    IF \E k \in 1..Len(p) : p[k] = "."
    THEN CHOOSE k \in 1..Len(p) : p[k] = "." /\ \A j \in 1..(k - 1) : p[j] # "."
    ELSE 0

\* Store::path_has_ident: the path matches ^([^.]*)[.](item|page)$
path_has_ident(p) ==
    /\ FirstDot(p) > 0
    /\ SubSeq(p, FirstDot(p), Len(p)) \in {page_suffix, item_suffix}

\* Store::ident_from_path, for a path that matches
ident_from_path(p) == SubSeq(p, 1, FirstDot(p) - 1)

\* ----------------------------------------------------------------- items
\* An item object in memory: ItemBase (ident, type, special) and the
\* ItemData of its type (name, text and, for a Task, status Open/Closed,
\* the show-after date as a number with 0 for the epoch, and the idents of
\* the blocking tasks).
\* A blob is its serialisation: the ItemBaseForSerde part and the values.
Types == {"Simple", "Task"}

\* NaiveDateTime::from_timestamp(0, 0): no show-after date
Epoch == 0

NoBlob ==
    [base |-> [ident |-> <<>>, type_name |-> "none", can_be_context |-> FALSE],
     vals |-> [name |-> <<>>, text |-> <<>>, status |-> "none",
               context |-> <<>>, show_after_date |-> Epoch, blockedby |-> <<>>]]

\* ItemBaseForSerde::from_base with the data's own serialisation (Item::to_yaml)
to_yaml(item) ==
    [base |-> [ident |-> item.ident, type_name |-> item.type,
               can_be_context |-> item.ctx],
     vals |-> [name |-> item.name, text |-> item.text,
               status |-> IF item.type = "Task"
                          THEN (IF item.open THEN "Open" ELSE "Closed")
                          ELSE "none",
               context |-> item.context,
               show_after_date |-> item.show_after,
               blockedby |-> item.blockedby]]

\* World::make_and_populate_item: the item a blob deserialises to (a Task
\* without a context gets the default one, Task::task_from)
make_and_populate_item(blob) ==
    [ident |-> blob.base.ident, type |-> blob.base.type_name,
     ctx |-> blob.base.can_be_context,
     name |-> blob.vals.name, text |-> blob.vals.text,
     open |-> blob.vals.status # "Closed",
     context |-> IF blob.base.type_name = "Task" /\ blob.vals.context = <<>>
                 THEN default_context ELSE blob.vals.context,
     show_after |-> blob.vals.show_after_date,
     blockedby |-> blob.vals.blockedby]

\* a row of the item table (Search::add_item, Search::update_item)
row_of(item) ==
    [type_name |-> item.type, name |-> item.name, open |-> item.open,
     special |-> item.ctx]

\* ------------------------------------------------------- the repository
\* A tree is [sub, items]: whether the item directory exists, and the blobs
\* in it by path.  A change is [op, path, data].
Change(op, path, data) == [op |-> op, path |-> path, data |-> data]

\* FanlingRepository::get_latest_tree
get_latest_tree(w) == w.commits[w.localHead].tree

\* FanlingRepository::write_commit (and the branch update of create_initial)
write_commit(w, tree, parents) ==
    [w EXCEPT !.commits = Append(@, [parents |-> parents, tree |-> tree]),
              !.localHead = Len(w.commits) + 1]

\* a faulty set_needs_push that forgets its guard on the URL and on
\* write_to_server
set_needs_push_unguarded(w) == [w EXCEPT !.needs_push = TRUE]

\* FanlingRepository::set_needs_push
set_needs_push(w) ==
    IF hasUrl /\ writeToServer THEN [w EXCEPT !.needs_push = TRUE] ELSE w

RECURSIVE apply_changes_to_item_treebuilder(_, _)
\* FanlingRepository::apply_changes_to_item_treebuilder: [ok, items]
apply_changes_to_item_treebuilder(items, changes) ==
    IF changes = <<>> THEN [ok |-> TRUE, items |-> items]
    ELSE LET c == Head(changes)
         IN  IF c.op \in {"Add", "Modify", "Fix"}
             THEN apply_changes_to_item_treebuilder(
                      Put(items, c.path, c.data), Tail(changes))
             ELSE IF c.op = "Delete" /\ c.path \in DOMAIN items
             THEN apply_changes_to_item_treebuilder(
                      Drop(items, c.path), Tail(changes))
             ELSE [ok |-> FALSE, items |-> items]

\* FanlingRepository::actually_do_changes: [ok, w]
actually_do_changes(w, changes) ==
    IF w.localHead = 0 \/ ~get_latest_tree(w).sub
    THEN [ok |-> FALSE, w |-> w]
    ELSE The({IF ~r.ok THEN [ok |-> FALSE, w |-> w]
              ELSE [ok |-> TRUE,
                    w |-> write_commit(w, [sub |-> TRUE, items |-> r.items],
                                       <<w.localHead>>)] :
              r \in {apply_changes_to_item_treebuilder(
                         get_latest_tree(w).items, changes)}})

\* FanlingRepository::apply_changes: [ok, w]
repo_apply_changes(w, changes) ==
    The({IF ~r.ok THEN r ELSE [ok |-> TRUE, w |-> set_needs_push(r.w)] :
         r \in {actually_do_changes(w, changes)}})

\* FanlingRepository::repo_has_file
repo_has_file(w, path) ==
    /\ w.localHead # 0
    /\ get_latest_tree(w).sub
    /\ path \in DOMAIN get_latest_tree(w).items

\* Store::list_all_items: the paths of the item directory that name an item
list_all_items(w) ==
    IF w.localHead = 0 \/ ~get_latest_tree(w).sub THEN {}
    ELSE {p \in DOMAIN get_latest_tree(w).items : path_has_ident(p)}

\* a faulty blob_from_path that answers a missing path with an empty blob
blob_from_path_empty(w, path) ==
    IF repo_has_file(w, path)
    THEN [ok |-> TRUE, blob |-> get_latest_tree(w).items[path]]
    ELSE [ok |-> TRUE, blob |-> NoBlob]

\* FanlingRepository::blob_from_path: [ok, blob]; no commit, no item
\* directory or no entry at the path is an error (a panic off Android)
blob_from_path(w, path) ==
    IF repo_has_file(w, path)
    THEN [ok |-> TRUE, blob |-> get_latest_tree(w).items[path]]
    ELSE [ok |-> FALSE, blob |-> NoBlob]

\* ------------------------------------------------------------ the store
\* Store::get_item_parts with get_serialised: [ok, blob]; a blank ident
\* fails its assertion
get_item_parts(w, ident) ==
    IF ident = <<>> THEN [ok |-> FALSE, blob |-> NoBlob]
    ELSE blob_from_path(w, path_from_ident(ident))

\* Store::apply_changes: [ok, w]
apply_changes(w) ==
    The({IF ~r.ok THEN r
         ELSE [ok |-> TRUE,
               w |-> set_needs_push([r.w EXCEPT !.pending_changes = <<>>])] :
         r \in {repo_apply_changes(w, w.pending_changes)}})

\* Store::add_item: [ok, w]
add_item(w, item) ==
    IF item.ident \in DOMAIN w.known THEN [ok |-> FALSE, w |-> w]
    ELSE apply_changes(
             [w EXCEPT !.known = Put(@, item.ident, item),
                       !.pending_changes =
                           Append(@, Change("Add", path_from_ident(item.ident),
                                            to_yaml(item)))])

\* Store::mark_item_modified: [ok, w]
mark_item_modified(w, item) ==
    IF item.ident \notin DOMAIN w.known THEN [ok |-> FALSE, w |-> w]
    ELSE apply_changes(
             [w EXCEPT !.pending_changes =
                           Append(@, Change("Modify", path_from_ident(item.ident),
                                            to_yaml(item)))])

\* Store::mark_item_deleted: [ok, w]
mark_item_deleted(w, item) ==
    IF item.ident \notin DOMAIN w.known THEN [ok |-> FALSE, w |-> w]
    ELSE apply_changes(
             [w EXCEPT !.known = Drop(@, item.ident),
                       !.pending_changes =
                           Append(@, Change("Delete", path_from_ident(item.ident),
                                            NoBlob))])

\* ------------------------------------------------------------ the index
\* Search::add_item: INSERT; the primary key ident rejects a second row
search_add_item(w, item) ==
    IF item.ident \in DOMAIN w.index THEN [ok |-> FALSE, w |-> w]
    ELSE [ok |-> TRUE, w |-> [w EXCEPT !.index = Put(@, item.ident, row_of(item))]]

\* Search::update_item: UPDATE ... WHERE ident; no row is not an error
search_update_item(w, item) ==
    IF item.ident \in DOMAIN w.index
    THEN [w EXCEPT !.index[item.ident] =
                       [@ EXCEPT !.name = item.name, !.open = item.open,
                                 !.special = item.ctx]]
    ELSE w

\* Search::delete_item: DELETE ... WHERE ident, asserting one row went
search_delete_item(w, item) ==
    IF item.ident \in DOMAIN w.index
    THEN [ok |-> TRUE, w |-> [w EXCEPT !.index = Drop(@, item.ident)]]
    ELSE [ok |-> FALSE, w |-> w]

\* Search::clear
search_clear(w) == [w EXCEPT !.index = EmptyFn]

\* World::search_contexts: the open rows with the Context special
search_contexts(w) ==
    {i \in DOMAIN w.index : w.index[i].open /\ w.index[i].special}

\* ------------------------------------------------------------ the world
\* Item::set_from_serde: [ok, item]; the ident is assigned before it is
\* checked, so a failure leaves it assigned
set_from_serde(item, base) ==
    LET id == IF base.ident # <<>> THEN base.ident ELSE item.ident
    IN  IF id = <<>> \/ Head(id) \in {"-", "?"}
        THEN [ok |-> FALSE, item |-> [item EXCEPT !.ident = id]]
        ELSE [ok |-> TRUE,
              item |-> [item EXCEPT !.ident = id, !.ctx = base.can_be_context]]

\* ItemTypePolicy::make_raw
make_raw(type) ==
    [ident |-> unset_ident, type |-> type, ctx |-> FALSE,
     name |-> <<>>, text |-> <<>>, open |-> TRUE, context |-> <<>>,
     show_after |-> Epoch, blockedby |-> <<>>]

\* a faulty check_valid that accepts every name
check_valid_lax(vals) == TRUE

\* ItemTypePolicy::check_valid: the name must be non-blank
check_valid(vals) == vals.name # <<>>

\* World::get_and_make_known with Store::make_known: [ok, w, item]
get_and_make_known(w, blob) ==
    LET sf == set_from_serde(make_raw(blob.base.type_name), blob.base)
        item == make_and_populate_item(blob)
    IN  IF ~sf.ok \/ blob.base.type_name \notin Types
        THEN [ok |-> FALSE, w |-> w, item |-> item]
        ELSE IF item.ident \in DOMAIN w.known
        THEN [ok |-> TRUE, w |-> w, item |-> w.known[item.ident]]
        ELSE [ok |-> TRUE, w |-> [w EXCEPT !.known = Put(@, item.ident, item)],
              item |-> item]

RECURSIVE make_item(_, _, _, _)
RECURSIVE get_item(_, _)

\* World::ensure_item: [ok, w, item]
ensure_item(w, ident, type) ==
    make_item(w, type,
              [ident |-> ident, type_name |-> type, can_be_context |-> type = "Simple"],
              [name |-> ident, text |-> <<>>,
               context |-> IF type = "Task" THEN default_context ELSE <<>>])

\* ItemData::set_data (Simple, Task): [ok, w, item]; a Task resolves its
\* context through World::get_item after setting its name and text
set_data(w, item, vals) ==
    LET it == [item EXCEPT !.name = vals.name, !.text = vals.text,
                           !.context = IF item.type = "Task" THEN vals.context
                                       ELSE @,
                           !.show_after =
                               IF item.type = "Task"
                                  /\ "show_after_date" \in DOMAIN vals
                               THEN vals.show_after_date ELSE Epoch]
    IN  IF item.type = "Task" /\ vals.context # <<>>
        THEN The({[ok |-> g.ok, w |-> g.w, item |-> it] :
                  g \in {get_item(w, vals.context)}})
        ELSE [ok |-> TRUE, w |-> w, item |-> it]

\* a faulty get_item that makes the missing item whatever auto_link says
get_item_linking(w, ident) ==
    IF ident \in DOMAIN w.known
    THEN [ok |-> TRUE, w |-> w, item |-> w.known[ident]]
    ELSE The({IF ~e.ok THEN [ok |-> FALSE, w |-> e.w, item |-> e.item]
              ELSE The({IF ~gp.ok THEN [ok |-> FALSE, w |-> e.w, item |-> e.item]
                        ELSE get_and_make_known(e.w, gp.blob) :
                        gp \in {get_item_parts(e.w, ident)}}) :
              e \in {IF ~repo_has_file(w, path_from_ident(ident))
                     THEN ensure_item(w, ident, "Simple")
                     ELSE [ok |-> TRUE, w |-> w, item |-> make_raw("Simple")]}})

\* World::get_item: [ok, w, item]
get_item(w, ident) ==
    IF ident \in DOMAIN w.known
    THEN [ok |-> TRUE, w |-> w, item |-> w.known[ident]]
    ELSE The({IF ~e.ok THEN [ok |-> FALSE, w |-> e.w, item |-> e.item]
              ELSE The({IF ~gp.ok THEN [ok |-> FALSE, w |-> e.w, item |-> e.item]
                        ELSE get_and_make_known(e.w, gp.blob) :
                        gp \in {get_item_parts(e.w, ident)}}) :
              e \in {IF autoLink /\ ~repo_has_file(w, path_from_ident(ident))
                     THEN ensure_item(w, ident, "Simple")
                     ELSE [ok |-> TRUE, w |-> w, item |-> make_raw("Simple")]}})

\* World::make_item once the data is set and the ident made: the new
\* counter is kept (Store and global.last_ident), the base fields are
\* applied, and the item goes to Store::add_item
make_item_add(w, item, mi, base) ==
    The({IF ~sf.ok
         THEN [ok |-> FALSE, item |-> sf.item,
               w |-> [w EXCEPT !.next_ident_num = mi.num, !.lastIdent = mi.num]]
         ELSE The({[ok |-> a.ok, w |-> a.w, item |-> sf.item] :
                   a \in {add_item([w EXCEPT !.next_ident_num = mi.num,
                                             !.lastIdent = mi.num], sf.item)}}) :
         sf \in {set_from_serde([item EXCEPT !.ident = mi.ident], base)}})

\* World::make_item up to and including Store::add_item: [ok, w, item]
make_item_in_store(w, type, base, vals) ==
    The({IF ~sd.ok \/ sd.item.name = <<>>
         THEN [ok |-> FALSE, w |-> sd.w, item |-> sd.item]
         ELSE The({IF ~mi.ok THEN [ok |-> FALSE, w |-> sd.w, item |-> sd.item]
                   ELSE make_item_add(sd.w, sd.item, mi, base) :
                   mi \in {make_identifier(sd.w.uniq_pfx, sd.item.name,
                                           sd.w.next_ident_num)}}) :
         sd \in {set_data(w, make_raw(type), vals)}})

\* World::make_item: [ok, w, item]
make_item(w, type, base, vals) ==
    The({IF ~m.ok THEN m
         ELSE The({[ok |-> s.ok, w |-> s.w, item |-> m.item] :
                   s \in {search_add_item(m.w, m.item)}}) :
         m \in {make_item_in_store(w, type, base, vals)}})

\* World::persist_change: [ok, w]
persist_change(w, item) == mark_item_modified(search_update_item(w, item), item)

\* the key of Store.known under which World::get_item found or put the item
known_key(g, ident) == IF ident \in DOMAIN g.w.known THEN ident ELSE g.item.ident

\* World::update_item_action on the item get_item gave, cached under key k:
\* set_from_serde then set_data, each assigning in the cached object
update_item_set(w, k, item, base, vals) ==
    The({IF ~sf.ok
         THEN [ok |-> FALSE, w |-> [w EXCEPT !.known[k] = sf.item], item |-> sf.item]
         ELSE The({[ok |-> sd.ok, w |-> [sd.w EXCEPT !.known[k] = sd.item],
                    item |-> sd.item] :
                   sd \in {set_data([w EXCEPT !.known[k] = sf.item],
                                    sf.item, vals)}}) :
         sf \in {set_from_serde(item, base)}})

\* World::update_item_action from get_item to set_data, once the values are
\* valid: [ok, w, item].  The item is the cached object itself, so what
\* set_from_serde and set_data assign is assigned in Store.known
update_item_prepare(w, ident, base, vals) ==
    The({IF ~g.ok THEN [ok |-> FALSE, w |-> g.w, item |-> g.item]
         ELSE update_item_set(g.w, known_key(g, ident), g.item, base, vals) :
         g \in {get_item(w, ident)}})

\* World::update_item_action once the values are valid: [ok, w]
update_item_action(w, ident, base, vals) ==
    The({IF ~u.ok THEN [ok |-> FALSE, w |-> u.w] ELSE persist_change(u.w, u.item) :
         u \in {update_item_prepare(w, ident, base, vals)}})

\* World::delete_item_action: [ok, w]
delete_item_action(w, ident) ==
    The({IF ~g.ok THEN [ok |-> FALSE, w |-> g.w]
         ELSE The({IF ~d.ok THEN d ELSE mark_item_deleted(d.w, g.item) :
                   d \in {search_delete_item(g.w, g.item)}}) :
         g \in {get_item(w, ident)}})

\* a faulty clone_from that copies the status and the blockers too
clone_from_as_is(item) == [item EXCEPT !.ident = unset_ident]

\* Item::clone_from: the base without the ident, the data through
\* fanling_clone (a cloned Task is Open and has no blockers)
clone_from(item) ==
    [item EXCEPT !.ident = unset_ident, !.open = TRUE, !.blockedby = <<>>]

\* World::clone_item once the clone has its ident: Store::add_item, then
\* Search::add_item
clone_item_add(w, item) ==
    The({IF ~a.ok THEN a ELSE search_add_item(a.w, item) :
         a \in {add_item(w, item)}})

\* World::clone_item: [ok, w]
clone_item(w, ident) ==
    The({IF ~g.ok THEN [ok |-> FALSE, w |-> g.w]
         ELSE The({IF ~mi.ok THEN [ok |-> FALSE, w |-> g.w]
                   ELSE clone_item_add(
                            [g.w EXCEPT !.next_ident_num = mi.num,
                                        !.lastIdent = mi.num],
                            [clone_from(g.item) EXCEPT !.ident = mi.ident]) :
                   mi \in {make_identifier(g.w.uniq_pfx, g.item.name,
                                           g.w.next_ident_num)}}) :
         g \in {get_item(w, ident)}})

\* a faulty unblock that drops no link
unblock_none(bs, ident) == bs

\* Task::unblock: the links to the ident are dropped
RECURSIVE unblock(_, _)
unblock(bs, ident) ==
    IF bs = <<>> THEN <<>>
    ELSE IF Head(bs) = ident THEN unblock(Tail(bs), ident)
    ELSE <<Head(bs)>> \o unblock(Tail(bs), ident)

\* ItemData::do_action (Simple, Task): [ok, item]; a Simple rejects every
\* action, a Task accepts Close, Reopen, BlockBy(arg) and UnblockBy(arg)
data_do_action(item, act, arg) ==
    IF item.type = "Task" /\ act = "Close"
    THEN [ok |-> TRUE, item |-> [item EXCEPT !.open = FALSE]]
    ELSE IF item.type = "Task" /\ act = "Reopen"
    THEN [ok |-> TRUE, item |-> [item EXCEPT !.open = TRUE]]
    ELSE IF item.type = "Task" /\ act = "BlockBy"
    THEN [ok |-> TRUE, item |-> [item EXCEPT !.blockedby = Append(@, arg)]]
    ELSE IF item.type = "Task" /\ act = "UnblockBy"
    THEN [ok |-> TRUE, item |-> [item EXCEPT !.blockedby = unblock(@, arg)]]
    ELSE [ok |-> FALSE, item |-> item]

\* World::do_action for an item action with Item::do_action: [ok, w].  Show
\* and Edit only read; any other action is persisted whatever its result
item_do_action(w, ident, act, arg) ==
    The({IF ~g.ok \/ act \in {"Show", "Edit"} THEN [ok |-> g.ok, w |-> g.w]
         ELSE The({The({IF ~p.ok THEN p ELSE [ok |-> r.ok, w |-> p.w] :
                        p \in {persist_change(
                                   [g.w EXCEPT !.known[known_key(g, ident)] = r.item],
                                   r.item)}}) :
                   r \in {data_do_action(g.item, act, arg)}}) :
         g \in {get_item(w, ident)}})

\* a faulty blocker loop that takes every blocker for closed
blockers_closed_all(w, self, bs) == [ok |-> TRUE, w |-> w, ready |-> TRUE]

\* the blocker loop of Task::is_ready: [ok, w, ready].  Each link is
\* resolved through World::get_item; the first open blocker ends the
\* loop.  A task that blocks itself is borrowed already when its link is
\* dereferenced, and the borrow panics
RECURSIVE blockers_closed(_, _, _)
blockers_closed(w, self, bs) ==
    IF bs = <<>> THEN [ok |-> TRUE, w |-> w, ready |-> TRUE]
    ELSE IF Head(bs) = self THEN [ok |-> FALSE, w |-> w, ready |-> FALSE]
    ELSE The({IF ~g.ok THEN [ok |-> FALSE, w |-> g.w, ready |-> FALSE]
              ELSE IF g.item.open THEN [ok |-> TRUE, w |-> g.w, ready |-> FALSE]
              ELSE blockers_closed(g.w, self, Tail(bs)) :
              g \in {get_item(w, Head(bs))}})

\* a faulty is_ready that forgets the show-after date
is_ready_undated(w, item, now) ==
    IF item.type = "Simple" THEN [ok |-> TRUE, w |-> w, ready |-> TRUE]
    ELSE IF ~item.open THEN [ok |-> TRUE, w |-> w, ready |-> FALSE]
    ELSE blockers_closed(w, item.ident, item.blockedby)

\* ItemData::is_ready (Simple, Task) at the time now: [ok, w, ready]
is_ready(w, item, now) ==
    IF item.type = "Simple" THEN [ok |-> TRUE, w |-> w, ready |-> TRUE]
    ELSE IF ~item.open THEN [ok |-> TRUE, w |-> w, ready |-> FALSE]
    ELSE IF item.show_after # Epoch /\ item.show_after > now
    THEN [ok |-> TRUE, w |-> w, ready |-> FALSE]
    ELSE blockers_closed(w, item.ident, item.blockedby)

\* Search::search_open_hier: the idents of the rows whose open flag is set
search_open_hier(w) == {i \in DOMAIN w.index : w.index[i].open}

\* ItemListEntryList::filter_on_item with Item::is_ready: each entry's item
\* is resolved again and kept when it is ready: [ok, w, list]
RECURSIVE filter_on_item(_, _, _)
filter_on_item(w, ids, now) ==
    IF ids = {} THEN [ok |-> TRUE, w |-> w, list |-> {}]
    ELSE The({The({IF ~g.ok THEN [ok |-> FALSE, w |-> g.w, list |-> {}]
                   ELSE The({IF ~r.ok THEN [ok |-> FALSE, w |-> r.w, list |-> {}]
                             ELSE The({[ok |-> f.ok, w |-> f.w,
                                        list |-> IF f.ok /\ r.ready
                                                 THEN f.list \cup {id}
                                                 ELSE f.list] :
                                       f \in {filter_on_item(r.w, ids \ {id}, now)}}) :
                             r \in {is_ready(g.w, g.item, now)}}) :
                   g \in {get_item(w, id)}}) :
              id \in {CHOOSE i \in ids : TRUE}})

\* Action::ListReady in World::do_world_action: [ok, w, list]
list_ready(w, now) == filter_on_item(w, search_open_hier(w), now)

\* a faulty make_known that caches the item and forgets the Index row
make_known_unindexed(w, blob) == get_and_make_known(w, blob)

\* World::make_known: [ok, w, item]
make_known(w, blob) ==
    The({IF ~g.ok THEN g
         ELSE The({[ok |-> s.ok, w |-> s.w, item |-> g.item] :
                   s \in {search_add_item(g.w, g.item)}}) :
         g \in {get_and_make_known(w, blob)}})

RECURSIVE load_entries(_, _, _)
\* the loop of World::get_all and of the LoadAll branch of
\* World::process_fetch_changes over Store::list_all_items: [ok, w].
\* get_all asserts the ident of the path, LoadAll (strict) compares the path
load_entries(w, paths, strict) ==
    IF paths = {} THEN [ok |-> TRUE, w |-> w]
    ELSE The({The({IF ~m.ok
                      \/ (~strict /\ ident_from_path(p) # m.item.ident)
                      \/ (strict /\ path_from_ident(m.item.ident) # p)
                   THEN [ok |-> FALSE, w |-> m.w]
                   ELSE load_entries(m.w, paths \ {p}, strict) :
                   m \in {make_known(w, get_latest_tree(w).items[p])}}) :
              p \in {CHOOSE q \in paths : TRUE}})

\* World::get_all: [ok, w]
get_all(w) ==
    LET w1 == [search_clear(w) EXCEPT !.known = EmptyFn]
    IN  load_entries(w1, list_all_items(w1), FALSE)

\* World::check_data: the two counts it reports
check_data(w) ==
    LET store_idents == {ident_from_path(p) : p \in list_all_items(w)}
    IN  [missing_from_search |-> Cardinality(store_idents \ DOMAIN w.index),
         missing_from_store |-> Cardinality(DOMAIN w.index \ store_idents)]

\* ------------------------------------------------------ fetch and merge
RECURSIVE Ancestors(_, _)
\* the commits reachable from commit c (c included)
Ancestors(cs, c) ==
    IF c = 0 THEN {}
    ELSE {c} \cup UNION {Ancestors(cs, cs[c].parents[i]) :
                             i \in 1..Len(cs[c].parents)}

\* the merge base git2's merge_commits works from (0: none); commit ids
\* grow from parent to child, so the greatest common ancestor is the best
merge_base(cs, a, b) ==
    The({IF ca = {} THEN 0 ELSE CHOOSE c \in ca : \A d \in ca : d <= c :
         ca \in {Ancestors(cs, a) \cap Ancestors(cs, b)}})

\* the blob at a path in a commit's item directory, or NoBlob
blob_at(cs, c, p) ==
    IF c # 0 /\ p \in DOMAIN cs[c].tree.items THEN cs[c].tree.items[p] ELSE NoBlob

\* Repository::merge_commits: the merged index [sub, entries, conflicts].
\* A path both sides changed, each its own way, is a conflict holding the
\* sides that exist
merge_commits(cs, ours, theirs) ==
    The({LET paths == DOMAIN cs[ours].tree.items \cup DOMAIN cs[theirs].tree.items
                      \cup (IF base = 0 THEN {} ELSE DOMAIN cs[base].tree.items)
             b(p) == blob_at(cs, base, p)
             o(p) == blob_at(cs, ours, p)
             t(p) == blob_at(cs, theirs, p)
             clash(p) == o(p) # t(p) /\ o(p) # b(p) /\ t(p) # b(p)
             pick(p) == IF o(p) = b(p) THEN t(p) ELSE o(p)
         IN  [sub |-> cs[ours].tree.sub \/ cs[theirs].tree.sub,
              entries |-> [p \in {q \in paths : ~clash(q) /\ pick(q) # NoBlob} |->
                              pick(p)],
              conflicts |-> [p \in {q \in paths : clash(q)} |->
                                [ancestor |-> b(p), our |-> o(p), their |-> t(p)]]] :
         base \in {merge_base(cs, ours, theirs)}})

\* a faulty merge that never looks for conflicts in the merged index
merge_unchecked(w) ==
    IF w.localHead = 0 \/ w.fetchHead = 0
    THEN [ok |-> FALSE, kind |-> "none", ix |-> <<>>]
    ELSE IF w.localHead = w.fetchHead
    THEN [ok |-> TRUE, kind |-> "AlreadyUpToDate", ix |-> <<>>]
    ELSE [ok |-> TRUE, kind |-> "Merged",
          ix |-> merge_commits(w.commits, w.localHead, w.fetchHead)]

\* FanlingRepository::merge: [ok, kind, ix]
merge(w) ==
    IF w.localHead = 0 \/ w.fetchHead = 0
    THEN [ok |-> FALSE, kind |-> "none", ix |-> <<>>]
    ELSE IF w.localHead = w.fetchHead
    THEN [ok |-> TRUE, kind |-> "AlreadyUpToDate", ix |-> <<>>]
    ELSE The({[ok |-> TRUE,
               kind |-> IF DOMAIN ix.conflicts # {} THEN "Conflict" ELSE "Merged",
               ix |-> ix] :
              ix \in {merge_commits(w.commits, w.localHead, w.fetchHead)}})

\* a faulty merge_strings that puts the second string first
merge_strings_swapped(sa, sb) == IF sa = sb THEN sa ELSE sb \o sa

\* crate::shared::merge_strings, for strings without a space: equal strings
\* are one Same part, different ones a Rem part then an Add part
merge_strings(sa, sb) == IF sa = sb THEN sa ELSE sa \o sb

\* the blocker loop of TaskTypePolicy::resolve_conflict_both: their
\* blockers that ours lack are pushed onto ours
RECURSIVE merge_blockers(_, _)
merge_blockers(ob, tb) ==
    IF tb = <<>> THEN ob
    ELSE merge_blockers(IF \E i \in DOMAIN ob : ob[i] = Head(tb)
                        THEN ob ELSE Append(ob, Head(tb)),
                        Tail(tb))

Min(a, b) == IF a <= b THEN a ELSE b

\* TaskTypePolicy::resolve_conflict_both on the two tasks read from ours
\* and theirs: every field of the merged Task
task_resolve_conflict_both(ot, tt) ==
    [ot EXCEPT !.name = merge_strings(ot.name, tt.name),
               !.text = merge_strings(ot.text, tt.text),
               !.status = IF ot.status = "Open" /\ tt.status = "Closed"
                          THEN "Closed" ELSE @,
               !.when_closed = IF ot.status = "Open" /\ tt.status = "Closed"
                               THEN tt.when_closed ELSE @,
               !.priority = Min(ot.priority, tt.priority),
               !.deadline = Min(ot.deadline, tt.deadline),
               !.show_after_date = Min(ot.show_after_date, tt.show_after_date),
               !.blockedby = merge_blockers(ot.blockedby, tt.blockedby)]

\* ItemTypePolicy::resolve_conflict_both (Simple, Task): the merged values
resolve_conflict_both(type, ov, tv) ==
    [name |-> merge_strings(ov.name, tv.name),
     text |-> merge_strings(ov.text, tv.text),
     status |-> IF type = "Task" /\ ov.status = "Open" /\ tv.status = "Closed"
                THEN "Closed" ELSE ov.status,
     context |-> IF type = "Task" /\ ov.context = <<>> THEN default_context
                 ELSE ov.context,
     show_after_date |-> Min(ov.show_after_date, tv.show_after_date),
     blockedby |-> merge_blockers(ov.blockedby, tv.blockedby)]

\* ItemType::resolve_conflict: the Changes one conflict yields: a Modify of
\* our path when ancestor, ours and theirs all exist, else nothing
resolve_conflict(path, c) ==
    IF c.our # NoBlob /\ c.their # NoBlob /\ c.ancestor # NoBlob
    THEN {Change("Modify", path,
                 [base |-> c.our.base,
                  vals |-> resolve_conflict_both(c.our.base.type_name,
                                                 c.our.vals, c.their.vals)])}
    ELSE {}

\* a faulty check of the types that lets every conflict through
types_agree_always(c) == TRUE

\* the type-name assertions of World::handle_merge_outcome on one conflict
types_agree(c) ==
    \A x, y \in {c.ancestor, c.our, c.their} \ {NoBlob} :
        x.base.type_name = y.base.type_name

\* the resolving Changes World::handle_merge_outcome collects
resolving_changes(ix) ==
    UNION {resolve_conflict(p, ix.conflicts[p]) : p \in DOMAIN ix.conflicts}

\* FanlingRepository::apply_changelist_to_index: each Change is staged at
\* its path, which ends the conflict there
apply_changelist_to_index(ix, changes) ==
    LET staged == {c.path : c \in changes}
        data(p) == (CHOOSE c \in changes : c.path = p).data
    IN  [ix EXCEPT !.entries = [p \in DOMAIN ix.entries \cup staged |->
                                    IF p \in staged THEN data(p) ELSE ix.entries[p]],
                   !.conflicts = [p \in DOMAIN ix.conflicts \ staged |->
                                      ix.conflicts[p]]]

\* World::handle_merge_outcome: [ok, w, ix]
handle_merge_outcome(w, mo) ==
    IF mo.kind # "Conflict" THEN [ok |-> TRUE, w |-> w, ix |-> mo.ix]
    ELSE IF \E p \in DOMAIN mo.ix.conflicts : ~types_agree(mo.ix.conflicts[p])
    THEN [ok |-> FALSE, w |-> w, ix |-> mo.ix]
    ELSE [ok |-> TRUE, w |-> set_needs_push(w),
          ix |-> apply_changelist_to_index(mo.ix, resolving_changes(mo.ix))]

\* FanlingRepository::commit_merge for Merged and Conflict: [ok, w]; an
\* index that still holds a conflict cannot be written as a tree
commit_merge(w, ix) ==
    IF DOMAIN ix.conflicts # {} THEN [ok |-> FALSE, w |-> w]
    ELSE [ok |-> TRUE,
          w |-> write_commit(w, [sub |-> ix.sub, items |-> ix.entries],
                             <<w.localHead, w.fetchHead>>)]

\* FanlingRepository::fetch, when the server is reached
fetch(w) == [w EXCEPT !.fetchHead = w.remoteHead]

\* World::pull in its Merged and Conflict branch, after set_needs_push:
\* handle_merge_outcome, then commit_merge
pull_merged(w, mo) ==
    The({IF ~h.ok THEN [ok |-> FALSE, w |-> h.w, kind |-> mo.kind]
         ELSE The({[ok |-> c.ok, w |-> c.w, kind |-> mo.kind] :
                   c \in {commit_merge(h.w, h.ix)}}) :
         h \in {handle_merge_outcome(w, mo)}})

\* a faulty pull that marks needs-push before it looks at the outcome
pull_flag_first(w, net) ==
    IF ~hasUrl THEN [ok |-> TRUE, w |-> w, kind |-> "none"]
    ELSE IF ~net THEN [ok |-> FALSE, w |-> w, kind |-> "none"]
    ELSE The({IF ~mo.ok THEN [ok |-> FALSE, w |-> fetch(w), kind |-> "none"]
              ELSE IF mo.kind = "AlreadyUpToDate"
              THEN [ok |-> TRUE, kind |-> mo.kind,
                    w |-> [fetch(w) EXCEPT !.needs_push = TRUE]]
              ELSE pull_merged([fetch(w) EXCEPT !.needs_push = TRUE], mo) :
              mo \in {merge(fetch(w))}})

\* World::pull: [ok, w, kind]; net is whether the server can be reached
pull(w, net) ==
    IF ~hasUrl THEN [ok |-> TRUE, w |-> w, kind |-> "none"]
    ELSE IF ~net THEN [ok |-> FALSE, w |-> w, kind |-> "none"]
    ELSE The({IF ~mo.ok THEN [ok |-> FALSE, w |-> fetch(w), kind |-> "none"]
              ELSE IF mo.kind = "AlreadyUpToDate"
              THEN [ok |-> TRUE, w |-> fetch(w), kind |-> mo.kind]
              ELSE pull_merged(set_needs_push(fetch(w)), mo) :
              mo \in {merge(fetch(w))}})

\* a faulty push that transmits and forgets to clear needs-push
repo_push_keeping_flag(w, force, net) ==
    IF ~hasUrl \/ ~net
       \/ (~force /\ w.remoteHead \notin Ancestors(w.commits, w.localHead))
    THEN [ok |-> FALSE, w |-> w]
    ELSE [ok |-> TRUE, w |-> [w EXCEPT !.remoteHead = w.localHead]]

\* FanlingRepository::push: [ok, w]; without force the server takes only a
\* fast-forward
repo_push(w, force, net) ==
    IF ~hasUrl \/ ~net
       \/ (~force /\ w.remoteHead \notin Ancestors(w.commits, w.localHead))
    THEN [ok |-> FALSE, w |-> w]
    ELSE [ok |-> TRUE,
          w |-> [w EXCEPT !.remoteHead = w.localHead, !.needs_push = FALSE]]

\* a faulty push that goes to the server whatever the flag says
push_always(w, force, net) == repo_push(w, force, net)

\* Store::push: [ok, w]
push(w, force, net) ==
    IF w.needs_push THEN repo_push(w, force, net) ELSE [ok |-> TRUE, w |-> w]

\* -------------------------------------------------------------- startup
\* a faulty new_from_options that reports LoadAll for a repository it
\* opened and ProcessChanges for one it cloned
new_from_options_swapped(w, net) ==
    IF w.localPath = "present"
    THEN [ok |-> TRUE, w |-> w, required |-> "LoadAll", opened |-> "open"]
    ELSE IF ~hasUrl
    THEN [ok |-> TRUE, required |-> "NoAction", opened |-> "init",
          w |-> [w EXCEPT !.localPath = "present", !.localHead = 0,
                          !.headIsBranch = TRUE, !.fetchHead = 0]]
    ELSE IF ~net
    THEN [ok |-> FALSE, w |-> w, required |-> "ProcessChanges", opened |-> "none"]
    ELSE [ok |-> TRUE, required |-> "ProcessChanges", opened |-> "clone",
          w |-> [w EXCEPT !.localPath = "present", !.localHead = w.remoteHead,
                          !.headIsBranch = TRUE, !.fetchHead = 0]]

\* FanlingRepository::new_from_options with can_open_repo, open, init and
\* clone_repo: [ok, w, required, opened]
new_from_options(w, net) ==
    IF w.localPath = "present"
    THEN [ok |-> TRUE, w |-> w, required |-> "ProcessChanges", opened |-> "open"]
    ELSE IF ~hasUrl
    THEN [ok |-> TRUE, required |-> "NoAction", opened |-> "init",
          w |-> [w EXCEPT !.localPath = "present", !.localHead = 0,
                          !.headIsBranch = TRUE, !.fetchHead = 0]]
    ELSE IF ~net
    THEN [ok |-> FALSE, w |-> w, required |-> "LoadAll", opened |-> "none"]
    ELSE [ok |-> TRUE, required |-> "LoadAll", opened |-> "clone",
          w |-> [w EXCEPT !.localPath = "present", !.localHead = w.remoteHead,
                          !.headIsBranch = TRUE, !.fetchHead = 0]]

\* FanlingRepository::check_structure
check_structure(w) ==
    IF w.localHead = 0 THEN "BadHead"
    ELSE IF ~w.headIsBranch THEN "HeadNotBranch"
    ELSE IF ~get_latest_tree(w).sub THEN "NoSubTree"
    ELSE "Good"

\* FanlingRepository::create_initial: a commit without parents, the
\* required branch made at it, and HEAD switched to that branch
create_initial(w) ==
    [write_commit(w, [sub |-> FALSE, items |-> EmptyFn], <<>>)
         EXCEPT !.headIsBranch = TRUE]

\* FanlingRepository::create_structure with commit_tree
create_structure(w) ==
    write_commit(w, [sub |-> TRUE, items |-> EmptyFn], <<w.localHead>>)

\* FanlingRepository::new_open after the repository is there: a bad head
\* gets an initial commit, and every status but Good, as it was found
\* before that commit, gets the item directory
ensure_structure(w) ==
    IF check_structure(w) = "BadHead" THEN create_structure(create_initial(w))
    ELSE IF check_structure(w) # "Good" THEN create_structure(w)
    ELSE w

\* FanlingRepository::new_open; FanlingRepository::new starts needs_push false
new_open(w, net) ==
    The({IF ~n.ok THEN n
         ELSE [n EXCEPT !.w = [ensure_structure(n.w) EXCEPT !.needs_push = FALSE]] :
         n \in {new_from_options(w, net)}})

\* World::process_fetch_changes: [ok, w]
process_fetch_changes(w, required, net) ==
    IF required = "NoAction" THEN [ok |-> TRUE, w |-> w]
    ELSE IF required = "LoadAll" THEN load_entries(w, list_all_items(w), TRUE)
    ELSE The({[ok |-> r.ok, w |-> r.w] : r \in {pull(w, net)}})

\* a faulty ensure_some_items that never makes a context
ensure_some_items_never(w) == [ok |-> TRUE, w |-> w]

\* World::ensure_some_items with ensure_some_context: [ok, w]
ensure_some_items(w) ==
    IF search_contexts(w) # {} THEN [ok |-> TRUE, w |-> w]
    ELSE The({[ok |-> e.ok, w |-> e.w] :
              e \in {ensure_item(w, default_context, "Simple")}})

\* a faulty new_world that starts the counter afresh
new_world_fresh(w, last_ident, pfx) ==
    [w EXCEPT !.known = EmptyFn, !.pending_changes = <<>>,
              !.next_ident_num = 0, !.uniq_pfx = pfx]

\* the Store and World that World::new_and_open constructs over the opened
\* repository: nothing cached, nothing pending, the counter read from the
\* Index (Search::read_global, Store::set_next_ident_num)
new_world(w, last_ident, pfx) ==
    [w EXCEPT !.known = EmptyFn, !.pending_changes = <<>>,
              !.next_ident_num = last_ident, !.uniq_pfx = pfx]

\* World::new_and_open with Store::new_and_open: [ok, w, required, opened]
new_and_open(w, pfx, net) ==
    The({IF ~s.ok THEN s
         ELSE The({IF ~f.ok THEN [s EXCEPT !.ok = FALSE, !.w = f.w]
                   ELSE The({[s EXCEPT !.ok = e.ok, !.w = e.w] :
                             e \in {ensure_some_items(f.w)}}) :
                   f \in {IF hasUrl
                          THEN process_fetch_changes(new_world(s.w, w.lastIdent, pfx),
                                                     s.required, net)
                          ELSE [ok |-> TRUE,
                                w |-> new_world(s.w, w.lastIdent, pfx)]}}) :
         s \in {new_open(w, net)}})

\* the end of the process: what lived in memory is gone
Down(w) ==
    [w EXCEPT !.up = FALSE, !.known = EmptyFn, !.pending_changes = <<>>,
              !.next_ident_num = 0, !.needs_push = FALSE, !.uniq_pfx = <<>>]

\* ------------------------------------------------------------ the engine
\* Response::new: no tags, no shutdown required, no error
Response_new == [shutdown_required |-> FALSE, error |-> FALSE]

\* Response::set_shutdown_required
set_shutdown_required(resp) == [resp EXCEPT !.shutdown_required = TRUE]

\* FanlingEngine::shutdown: [ok, resp]
shutdown == [ok |-> TRUE, resp |-> set_shutdown_required(Response_new)]

\* FanlingEngine::push_and_shutdown: [ok, w, resp]; the response of
\* shutdown() is dropped and a new Response is returned
push_and_shutdown(w, force, net) ==
    The({IF ~p.ok THEN [ok |-> FALSE, w |-> p.w, resp |-> Response_new]
         ELSE [ok |-> shutdown.ok, w |-> p.w, resp |-> Response_new] :
         p \in {push(w, force, net)}})

\* FanlingEngine::do_engine_action: [ok, w, resp]
do_engine_action(w, action, force, net) ==
    IF action = "Shutdown" THEN [ok |-> shutdown.ok, w |-> w, resp |-> shutdown.resp]
    ELSE IF action = "PushAndQuit" THEN push_and_shutdown(w, force, net)
    ELSE [ok |-> TRUE, w |-> w, resp |-> [Response_new EXCEPT !.error = TRUE]]

\* the events of the life cycle (CycleEvent)
CycleEvents ==
    {"CycleStart", "CyclePause", "CycleResume", "CycleDestroy", "CycleStop",
     "CycleStopPC"}

\* FanlingEngine::handle_event: [ok, w, resp]
handle_event(w, event, net) ==
    IF event \in {"CycleStop", "CycleStopPC"} THEN push_and_shutdown(w, FALSE, net)
    ELSE [ok |-> TRUE, w |-> w, resp |-> Response_new]

\* ------------------------------------------------- serialisation in full
\* Here an item is [base, data] with every field of ItemBase and of its
\* Simple or Task.  An Option is a sequence of no or one element, a date is
\* a number, and a serialised item is a function from its keys to values.
PutIf(f, c, k, v) == IF c THEN Put(f, k, v) ELSE f

GetOr(f, k, d) == IF k \in DOMAIN f THEN f[k] ELSE d

\* Serialize for NaiveDateTime (chrono): the ISO form, a T between date
\* and time and no zone
date_to_string(t) == [sep |-> "T", zone |-> "", t |-> t]

\* ItemBaseForSerde::deserialize: the date formats tried in turn, "date
\* time", then the T forms with Z, with an offset, bare, with a zone name:
\* [ok, t]
deserialize(s) ==
    IF \/ (s.sep = " " /\ s.zone = "")
       \/ (s.sep = "T" /\ s.zone \in {"Z", "+00:00", "", "UTC"})
    THEN [ok |-> TRUE, t |-> s.t]
    ELSE [ok |-> FALSE, t |-> Epoch]

\* ItemBase::new at the time now
ItemBase_new(type, now) ==
    [ident |-> unset_ident, type |-> type, parent |-> <<>>, sort |-> <<>>,
     classify |-> "normal", can_be_parent |-> FALSE, can_be_context |-> FALSE,
     targeted |-> FALSE, when_created |-> now, when_modified |-> now]

\* ItemBaseForSerde::from_base at the time now
from_base(ib, now) ==
    [ident |-> ib.ident, type_name |-> ib.type, parent |-> ib.parent,
     can_be_parent |-> ib.can_be_parent, can_be_context |-> ib.can_be_context,
     sort |-> ib.sort, classify |-> ib.classify, targeted |-> ib.targeted,
     when_created |-> ib.when_created, when_modified |-> now, closed |-> FALSE]

\* Serialize for ItemBaseForSerde: an absent parent, a false flag, an empty
\* sort key and the normal classification are skipped, and so are targeted
\* and closed
base_to_json(b) ==
    PutIf(PutIf(PutIf(PutIf(PutIf(
        Put(Put(Put(Put(EmptyFn, "ident", b.ident), "type", b.type_name),
                "when_created", date_to_string(b.when_created)),
            "when_modified", date_to_string(b.when_modified)),
        b.parent # <<>>, "parent", b.parent),
        b.can_be_parent, "can_be_parent", TRUE),
        b.can_be_context, "can_be_context", TRUE),
        b.sort # <<>>, "sort", b.sort),
        b.classify # "normal", "classify", b.classify)

\* split_data_parts, the Deserialize of ItemBaseForSerde at the time now:
\* [ok, base]
split_data_parts(json, now) ==
    LET wc == IF "when_created" \in DOMAIN json
              THEN deserialize(json["when_created"]) ELSE [ok |-> TRUE, t |-> now]
        wm == IF "when_modified" \in DOMAIN json
              THEN deserialize(json["when_modified"]) ELSE [ok |-> TRUE, t |-> now]
    IN  [ok |-> {"ident", "type"} \subseteq DOMAIN json /\ wc.ok /\ wm.ok,
         base |-> [ident |-> GetOr(json, "ident", <<>>),
                   type_name |-> GetOr(json, "type", "none"),
                   parent |-> GetOr(json, "parent", <<>>),
                   can_be_parent |-> GetOr(json, "can_be_parent", FALSE),
                   can_be_context |-> GetOr(json, "can_be_context", FALSE),
                   sort |-> GetOr(json, "sort", <<>>),
                   classify |-> GetOr(json, "classify", "normal"),
                   targeted |-> FALSE,
                   when_created |-> wc.t, when_modified |-> wm.t,
                   closed |-> FALSE]]

\* Task::new
Task_new ==
    [name |-> <<>>, text |-> <<>>, context |-> <<>>, status |-> "Open",
     priority |-> 10, when_closed |-> Epoch, project |-> <<>>,
     deadline |-> Epoch, show_after_date |-> Epoch, blockedby |-> <<>>]

\* Simple::new
Simple_new == [name |-> <<>>, text |-> <<>>]

\* TaskForSerde::try_from(&Task) and the Serialize of TaskForSerde: [ok,
\* json]; a task without a context is an error; an empty name, text or
\* project, the Open status and an empty blocker list are skipped
task_to_json(task) ==
    [ok |-> task.context # <<>>,
     json |->
        PutIf(PutIf(PutIf(PutIf(PutIf(
            Put(Put(Put(Put(Put(Put(EmptyFn,
                "context", IF task.context = <<>> THEN <<>> ELSE task.context[1]),
                "priority", task.priority),
                "when_closed", date_to_string(task.when_closed)),
                "deadline", date_to_string(task.deadline)),
                "show_after_date", date_to_string(task.show_after_date)),
                "closed", FALSE),
            task.name # <<>>, "name", task.name),
            task.text # <<>>, "text", task.text),
            task.status # "Open", "status", task.status),
            task.project # <<>>, "project", task.project),
            task.blockedby # <<>>, "blockedby", task.blockedby)]

\* the Serialize of Simple
simple_to_json(simple) ==
    [ok |-> TRUE,
     json |-> Put(Put(EmptyFn, "name", simple.name), "text", simple.text)]

\* ItemData::to_json (Simple, Task) at the time now: the base and the data
\* flattened into one structure: [ok, json]
to_json(item, now) ==
    The({[ok |-> d.ok,
          json |-> [k \in DOMAIN b \cup DOMAIN d.json |->
                       IF k \in DOMAIN b THEN b[k] ELSE d.json[k]]] :
         b \in {base_to_json(from_base(item.base, now))},
         d \in {IF item.base.type = "Task" THEN task_to_json(item.data)
                ELSE simple_to_json(item.data)}})

\* str::to_lowercase, on the words a status is written with
to_lowercase(s) ==
    CASE s = "Open" -> "open"
      [] s = "Closed" -> "closed"
      [] OTHER -> s

\* TaskStatus::deserialize: an unknown word is Open
TaskStatus_deserialize(s) ==
    IF to_lowercase(s) = "closed" THEN "Closed" ELSE "Open"

\* TaskForSerde::set_from_json with fix_data, then Task::task_from: [ok,
\* task]; the legacy flag closed sets the status, an empty context is the
\* default context
task_set_from_json(json) ==
    LET wc == IF "when_closed" \in DOMAIN json
              THEN deserialize(json["when_closed"]) ELSE [ok |-> FALSE, t |-> Epoch]
        dl == IF "deadline" \in DOMAIN json
              THEN deserialize(json["deadline"]) ELSE [ok |-> FALSE, t |-> Epoch]
        sa == IF "show_after_date" \in DOMAIN json
              THEN deserialize(json["show_after_date"])
              ELSE [ok |-> FALSE, t |-> Epoch]
    IN  [ok |-> "context" \in DOMAIN json /\ wc.ok /\ dl.ok /\ sa.ok,
         task |-> [name |-> GetOr(json, "name", <<>>),
                   text |-> GetOr(json, "text", <<>>),
                   context |-> IF GetOr(json, "context", <<>>) = <<>>
                               THEN <<default_context>> ELSE <<json["context"]>>,
                   status |-> IF GetOr(json, "closed", FALSE) THEN "Closed"
                              ELSE TaskStatus_deserialize(GetOr(json, "status", "Open")),
                   priority |-> GetOr(json, "priority", 0),
                   when_closed |-> wc.t,
                   project |-> GetOr(json, "project", <<>>),
                   deadline |-> dl.t,
                   show_after_date |-> sa.t,
                   blockedby |-> GetOr(json, "blockedby", <<>>)]]

\* Simple::set_from_json: [ok, simple]
simple_set_from_json(json) ==
    [ok |-> {"name", "text"} \subseteq DOMAIN json,
     simple |-> [name |-> GetOr(json, "name", <<>>),
                 text |-> GetOr(json, "text", <<>>)]]

\* ItemBase::set_from_serde in full: [ok, base]; targeted and the two
\* timestamps are not copied
base_set_from_serde(ib, b) ==
    LET id == IF b.ident # <<>> THEN b.ident ELSE ib.ident
    IN  [ok |-> id # <<>> /\ Head(id) \notin {"-", "?"},
         base |-> [ib EXCEPT !.ident = id,
                             !.parent = IF b.parent = <<>> \/ b.parent = << <<>> >>
                                        THEN <<>> ELSE b.parent,
                             !.sort = b.sort,
                             !.classify = b.classify,
                             !.can_be_parent = b.can_be_parent,
                             !.can_be_context = b.can_be_context]]

\* ItemData::fix_data (Simple, Task): [ok, base]; a task with a project and
\* no parent gets the item of that name as its parent, resolved through
\* World::get_item
fix_data(w, json, item) ==
    IF item.base.type = "Task" /\ GetOr(json, "project", <<>>) # <<>>
       /\ item.base.parent = <<>>
    THEN The({[ok |-> g.ok,
               base |-> IF g.ok THEN [item.base EXCEPT !.parent = <<g.item.ident>>]
                        ELSE item.base] :
              g \in {get_item(w, json["project"])}})
    ELSE [ok |-> TRUE, base |-> item.base]

\* World::make_and_populate_item in full, after split_data_parts, at the
\* time now: make_raw, set_from_json, set_from_serde, fix_data: [ok, item]
populate_item(w, json, now) ==
    LET sp == split_data_parts(json, now)
        raw == ItemBase_new(sp.base.type_name, now)
        d == IF sp.base.type_name = "Task"
             THEN The({[ok |-> t.ok, data |-> t.task] : t \in {task_set_from_json(json)}})
             ELSE The({[ok |-> t.ok, data |-> t.simple] :
                       t \in {simple_set_from_json(json)}})
        sf == base_set_from_serde(raw, sp.base)
        fx == fix_data(w, json, [base |-> sf.base, data |-> d.data])
    IN  [ok |-> sp.ok /\ sp.base.type_name \in Types /\ d.ok /\ sf.ok /\ fx.ok,
         item |-> [base |-> fx.base, data |-> d.data]]

\* ----------------------------------------------------- inputs and seeds
LocalPrefixes == {<<"a">>}
CreateText == <<"c">>
UpdateText == <<"b", "b", "b", "b">>
RemoteText == <<"c", "c", "c", "c">>

\* an item another replica (prefix b) made
remote_ident == <<"r", "-", "b", "1">>

\* the idents a request of the replica without a server may name: the
\* context made at startup and the first item the user makes
IdentPool == {default_context, <<"x", "-", "a", "2">>}

SeedContext ==
    [base |-> [ident |-> default_context, type_name |-> "Simple",
               can_be_context |-> TRUE],
     vals |-> [name |-> default_context, text |-> <<>>, status |-> "none",
               context |-> <<>>, show_after_date |-> Epoch, blockedby |-> <<>>]]

SeedItem ==
    [base |-> [ident |-> remote_ident, type_name |-> "Simple",
               can_be_context |-> FALSE],
     vals |-> [name |-> <<"r">>, text |-> <<"a">>, status |-> "none",
               context |-> <<>>, show_after_date |-> Epoch, blockedby |-> <<>>]]

\* what the server holds at the start: the history another replica pushed,
\* its initial commit, its structure commit, then a context and an item
SeedCommits ==
    <<[parents |-> <<>>, tree |-> [sub |-> FALSE, items |-> EmptyFn]],
      [parents |-> <<1>>, tree |-> [sub |-> TRUE, items |-> EmptyFn]],
      [parents |-> <<2>>,
       tree |-> [sub |-> TRUE,
                 items |-> Put(Put(EmptyFn, path_from_ident(default_context),
                                   SeedContext),
                               path_from_ident(remote_ident), SeedItem)]]>>

\* two tasks another replica made and pushed
task_ident_1 == <<"t", "-", "b", "1">>

task_ident_2 == <<"t", "-", "b", "2">>

SeedTask(ident) ==
    [base |-> [ident |-> ident, type_name |-> "Task", can_be_context |-> FALSE],
     vals |-> [name |-> <<"t">>, text |-> <<"a">>, status |-> "Open",
               context |-> default_context, show_after_date |-> Epoch,
               blockedby |-> <<>>]]

\* what a server of tasks holds at the start: a context and the two tasks
TaskSeedCommits ==
    <<[parents |-> <<>>, tree |-> [sub |-> FALSE, items |-> EmptyFn]],
      [parents |-> <<1>>, tree |-> [sub |-> TRUE, items |-> EmptyFn]],
      [parents |-> <<2>>,
       tree |-> [sub |-> TRUE,
                 items |-> Put(Put(Put(EmptyFn, path_from_ident(default_context),
                                       SeedContext),
                                   path_from_ident(task_ident_1),
                                   SeedTask(task_ident_1)),
                               path_from_ident(task_ident_2),
                               SeedTask(task_ident_2))]]>>

\* the base fields and the values a request carries
RequestBase(bid, type) ==
    [ident |-> bid, type_name |-> type, can_be_context |-> FALSE]

\* the values of a request that makes a Task to be shown after a date
TaskVals(name, after) ==
    [name |-> name, text |-> CreateText, context |-> default_context,
     show_after_date |-> after]

CreateVals(type, name) ==
    [name |-> name, text |-> CreateText,
     context |-> IF type = "Task" THEN default_context ELSE <<>>]

UpdateVals(name) == [name |-> name, text |-> UpdateText, context |-> <<>>]

\* ---------------------------------------------------------------- state
W ==
    [commits |-> commits, localPath |-> localPath, localHead |-> localHead,
     headIsBranch |-> headIsBranch, fetchHead |-> fetchHead, remoteHead |-> remoteHead, index |-> index,
     lastIdent |-> lastIdent, up |-> up, uniq_pfx |-> uniq_pfx, known |-> known,
     pending_changes |-> pending_changes, next_ident_num |-> next_ident_num,
     needs_push |-> needs_push]

\* the next state is w, within the bounds
SetW(w) ==
    /\ Len(w.commits) <= MaxCommits
    /\ w.lastIdent <= MaxIdentNum
    /\ Len(w.pending_changes) <= MaxPending
    /\ commits' = w.commits
    /\ localPath' = w.localPath
    /\ localHead' = w.localHead
    /\ headIsBranch' = w.headIsBranch
    /\ fetchHead' = w.fetchHead
    /\ remoteHead' = w.remoteHead
    /\ index' = w.index
    /\ lastIdent' = w.lastIdent
    /\ up' = w.up
    /\ uniq_pfx' = w.uniq_pfx
    /\ known' = w.known
    /\ pending_changes' = w.pending_changes
    /\ next_ident_num' = w.next_ident_num
    /\ needs_push' = w.needs_push
    /\ UNCHANGED <<hasUrl, writeToServer, autoLink>>

\* the record of the last operation
L(act, res, note) ==
    [act |-> act, res |-> res, note |-> note, tags |-> <<>>, list |-> {},
     now |-> 0]

Res(ok) == IF ok THEN "ok" ELSE "error"

\* a (tag, replacement value) pair of a Response
Tag(t, v) == [tag |-> t, val |-> v]

\* the tags of ItemData::for_edit: clear_errors(name-error), then content
for_edit == <<Tag("name-error", ""), Tag("content", "html")>>

\* the tags of ItemData::for_show
for_show == <<Tag("content", "html")>>

\* the digit a character stands for
DigitOf(c) == (CHOOSE i \in DOMAIN Digits : Digits[i] = c) - 1

RECURSIVE DigitsValue(_)
\* the number a string of digits stands for
DigitsValue(s) ==
    IF s = <<>> THEN 0
    ELSE 10 * DigitsValue(SubSeq(s, 1, Len(s) - 1)) + DigitOf(s[Len(s)])

\* str::parse::<i8>().is_ok(): an optional sign, then digits, and a value
\* an i8 holds
parse_i8(s) ==
    LET signed == s # <<>> /\ s[1] \in {"+", "-"}
        ds == IF signed THEN Tail(s) ELSE s
        v == IF signed /\ s[1] = "-" THEN 0 - DigitsValue(ds) ELSE DigitsValue(ds)
    IN  /\ ds # <<>>
        /\ \A i \in DOMAIN ds : \E d \in DOMAIN Digits : Digits[d] = ds[i]
        /\ v >= 0 - 128
        /\ v <= 127

\* Utc.datetime_from_str(s, "%F %T").is_ok(): the date, a space, the time,
\* and nothing after it
datetime_from_str(s) == s.sep = " " /\ s.zone = ""

\* the assertions of TaskTypePolicy::check_valid, in their order
TaskRules ==
    <<[key |-> "name", tag |-> "name-error", msg |-> "Name must be non-blank."],
      [key |-> "priority", tag |-> "priority-error",
       msg |-> "Priority must be numeric"],
      [key |-> "deadline", tag |-> "deadline-error", msg |-> "Invalid deadline date"],
      [key |-> "show_after_date", tag |-> "show-after-date-error",
       msg |-> "Invalid show-after date"]>>

\* the condition one assertion of TaskTypePolicy::check_valid tests
RuleHolds(key, v) ==
    IF key = "name" THEN v # <<>>
    ELSE IF key = "priority" THEN parse_i8(v)
    ELSE datetime_from_str(v)

RECURSIVE run_assertions(_, _, _)
\* TaskTypePolicy::check_valid from one assertion on: ActionResponse::assert
\* adds the error of a false condition to ar and goes on; vals[key] of a
\* key the request lacks panics: [ok, specifics]
run_assertions(vals, rules, ar) ==
    IF rules = <<>> THEN [ok |-> TRUE, specifics |-> ar]
    ELSE IF Head(rules).key \notin DOMAIN vals THEN [ok |-> FALSE, specifics |-> <<>>]
    ELSE run_assertions(vals, Tail(rules),
                        IF RuleHolds(Head(rules).key, vals[Head(rules).key]) THEN ar
                        ELSE Append(ar, Tag(Head(rules).tag, Head(rules).msg)))

\* a faulty check_valid that returns at the first false condition
task_check_valid_first(vals) ==
    The({[ok |-> r.ok, specifics |-> SubSeq(r.specifics, 1, Min(1, Len(r.specifics)))] :
         r \in {run_assertions(vals, TaskRules, <<>>)}})

\* TaskTypePolicy::check_valid: [ok, specifics]
task_check_valid(vals) == run_assertions(vals, TaskRules, <<>>)

\* ActionResponse::to_response of a pass with these specifics: the overall
\* message (the messages, to be joined), then one tag per error
specifics_to_response(specifics) ==
    <<Tag("message", IF specifics = <<>> THEN ""
                     ELSE [i \in DOMAIN specifics |-> specifics[i].val])>>
    \o specifics

\* the tags of ActionResponse::to_response: the overall message, then the
\* specific errors
to_response(ok) ==
    IF ok THEN <<Tag("message", "")>>
    ELSE <<Tag("message", "Name must be non-blank."),
           Tag("name-error", "Name must be non-blank.")>>

\* a faulty add_always that always reports that nothing waits for a push
add_always_idle(w, tags) == Append(tags, Tag("always", "pushed"))

\* World::add_always: the always tag renders Store::does_need_pushing
add_always(w, tags) ==
    Append(tags, Tag("always", IF w.needs_push THEN "needs push" ELSE "pushed"))

\* the end of World::do_action: an action that returned a response (l is
\* its record, own its tags) gets the always tag, read from the world w
\* the action left; an action that returned an error gets no response
do_action(l, w, own) ==
    IF l.res = "error" THEN l ELSE [l EXCEPT !.tags = add_always(w, own)]

\* nothing is on the local disk yet; the options are any of the given
\* ones, and a server holds the seed
InitFrom(urls, links, seed) ==
    /\ hasUrl \in urls
    /\ writeToServer \in BOOLEAN
    /\ autoLink \in links
    /\ commits = IF hasUrl THEN seed ELSE <<>>
    /\ remoteHead = IF hasUrl THEN Len(seed) ELSE 0
    /\ localPath = "absent"
    /\ localHead = 0
    /\ headIsBranch = TRUE
    /\ fetchHead = 0
    /\ index = EmptyFn
    /\ lastIdent = 0
    /\ up = FALSE
    /\ uniq_pfx = <<>>
    /\ known = EmptyFn
    /\ pending_changes = <<>>
    /\ next_ident_num = 0
    /\ needs_push = FALSE
    /\ last = L("Init", "ok", "none")

InitWith(urls, links) == InitFrom(urls, links, SeedCommits)

Init == InitWith(BOOLEAN, {FALSE})

\* -------------------------------------------------------------- actions
\* FanlingEngine::new: the engine is constructed over what is on disk
Startup(pfx, net) ==
    /\ ~up
    /\ \E r \in {new_and_open(W, pfx, net)} :
           /\ SetW(IF r.ok THEN [r.w EXCEPT !.up = TRUE] ELSE Down(r.w))
           /\ last' = L("Startup", Res(r.ok), r.required)

\* the process ends and the Store is dropped; the drop asserts that no
\* change is pending
Stop ==
    /\ up
    /\ SetW(Down(W))
    /\ last' = L("Stop", Res(pending_changes = <<>>), "none")

\* Action::Create
Create(type, name, bid) ==
    /\ up
    /\ IF ~check_valid(CreateVals(type, name))
       THEN /\ SetW(W)
            /\ last' = do_action(L("Create", "failure", "name-error"), W,
                                 to_response(FALSE))
       ELSE \E r \in {make_item(W, type, RequestBase(bid, type),
                                 CreateVals(type, name))} :
                /\ SetW(r.w)
                /\ last' = do_action(L("Create", Res(r.ok), "none"), r.w, for_edit)

\* Action::Create of a Task with a show-after date
CreateTask(name, after) ==
    /\ up
    /\ IF ~check_valid(TaskVals(name, after))
       THEN /\ SetW(W)
            /\ last' = do_action(L("Create", "failure", "name-error"), W,
                                 to_response(FALSE))
       ELSE \E r \in {make_item(W, "Task", RequestBase(<<>>, "Task"),
                                 TaskVals(name, after))} :
                /\ SetW(r.w)
                /\ last' = do_action(L("Create", Res(r.ok), "none"), r.w, for_edit)

\* Action::Update
Update(ident, name, bid) ==
    /\ up
    /\ IF ~check_valid(UpdateVals(name))
       THEN /\ SetW(W)
            /\ last' = do_action(L("Update", "failure", "name-error"), W,
                                 to_response(FALSE))
       ELSE \E r \in {update_item_action(W, ident, RequestBase(bid, "Simple"),
                                          UpdateVals(name))} :
                /\ SetW(r.w)
                /\ last' = do_action(L("Update", Res(r.ok), "none"), r.w,
                                     to_response(TRUE))

\* Action::Delete
Delete(ident) ==
    /\ up
    /\ \E r \in {delete_item_action(W, ident)} :
           /\ SetW(r.w)
           /\ last' = do_action(L("Delete", Res(r.ok), "none"), r.w, <<>>)

\* Action::Clone
Clone(ident) ==
    /\ up
    /\ \E r \in {clone_item(W, ident)} :
           /\ SetW(r.w)
           /\ last' = do_action(L("Clone", Res(r.ok), "none"), r.w, for_edit)

\* an item action: Action::Show, Action::Close, Action::Reopen,
\* Action::BlockBy(arg), Action::UnblockBy(arg)
ItemAction(ident, act, arg) ==
    /\ up
    /\ \E r \in {item_do_action(W, ident, act, arg)} :
           /\ SetW(r.w)
           /\ last' = do_action(L(act, Res(r.ok), "none"), r.w,
                                IF act = "Edit" THEN for_edit ELSE for_show)

\* Action::ListReady at the time now: the response shows the ready items
ListReady(now) ==
    /\ up
    /\ \E r \in {list_ready(W, now)} :
           /\ SetW(r.w)
           /\ last' = [do_action(L("ListReady", Res(r.ok), "none"), r.w,
                                 <<Tag("content", "html")>>)
                       EXCEPT !.list = r.list, !.now = now]

\* Action::GetAll
GetAll ==
    /\ up
    /\ \E r \in {get_all(W)} :
           /\ SetW(r.w)
           /\ last' = do_action(L("GetAll", Res(r.ok), "none"), r.w, <<>>)

\* a faulty CheckData that rebuilds the Index from the Content Store
CheckDataRepairing ==
    /\ up
    /\ \E r \in {get_all(W)} :
           /\ SetW(r.w)
           /\ last' = do_action(L("CheckData", Res(r.ok), "none"), r.w, <<>>)

\* Action::CheckData
CheckData ==
    /\ up
    /\ SetW(W)
    /\ last' = do_action(L("CheckData", "ok", "none"), W, <<>>)

\* Action::Pull
Pull(net) ==
    /\ up
    /\ \E r \in {pull(W, net)} :
           /\ SetW(r.w)
           /\ last' = do_action(L("Pull", Res(r.ok), r.kind), r.w, <<>>)

\* Action::Push
Push(force, net) ==
    /\ up
    /\ \E r \in {push(W, force, net)} :
           /\ SetW(r.w)
           /\ last' = do_action(L("Push", Res(r.ok), "none"), r.w, <<>>)

\* what a response says of shutting down
ShutdownNote(resp) == IF resp.shutdown_required THEN "shutdown_required" ELSE "none"

\* an Engine-level action: Action::Shutdown, Action::PushAndQuit
EngineAction(action, force, net) ==
    /\ up
    /\ \E r \in {do_engine_action(W, action, force, net)} :
           /\ SetW(r.w)
           /\ last' = L(action, Res(r.ok /\ ~r.resp.error), ShutdownNote(r.resp))

\* an event of the life cycle, delivered by the hosting process
CycleEvent(event, net) ==
    /\ up
    /\ \E r \in {handle_event(W, event, net)} :
           /\ SetW(r.w)
           /\ last' = L(event, Res(r.ok /\ ~r.resp.error), ShutdownNote(r.resp))

\* the process dies inside World::make_item, between Store::add_item and
\* Search::add_item
CrashInCreate(type, name) ==
    /\ up
    /\ check_valid(CreateVals(type, name))
    /\ \E r \in {make_item_in_store(W, type, RequestBase(<<>>, type),
                                     CreateVals(type, name))} :
           /\ r.ok
           /\ SetW(Down(r.w))
           /\ last' = L("Crash", "error", "Create")

\* the process dies inside World::persist_change, between
\* Search::update_item and Store::mark_item_modified
CrashInUpdate(ident) ==
    /\ up
    /\ \E r \in {update_item_prepare(W, ident, RequestBase(ident, "Simple"),
                                      UpdateVals(<<"x">>))} :
           /\ r.ok
           /\ SetW(Down(search_update_item(r.w, r.item)))
           /\ last' = L("Crash", "error", "Update")

\* the process dies inside World::delete_item_action, between
\* Search::delete_item and Store::mark_item_deleted
CrashInDelete(ident) ==
    /\ up
    /\ \E g \in {get_item(W, ident)} :
           /\ g.ok
           /\ \E d \in {search_delete_item(g.w, g.item)} :
                  /\ d.ok
                  /\ SetW(Down(d.w))
                  /\ last' = L("Crash", "error", "Delete")

\* another replica commits on the server's head and pushes: its tree is
\* the server's with one item added, modified or deleted
RemoteCommit(items) ==
    /\ hasUrl
    /\ Len(commits) < MaxCommits
    /\ commits' = Append(commits, [parents |-> <<remoteHead>>,
                                   tree |-> [sub |-> TRUE, items |-> items]])
    /\ remoteHead' = Len(commits) + 1
    /\ UNCHANGED <<hasUrl, writeToServer, autoLink, localPath, localHead,
                   headIsBranch, fetchHead, index, lastIdent, up, uniq_pfx, known,
                   pending_changes, next_ident_num, needs_push, last>>

RemoteItems == commits[remoteHead].tree.items

RemoteModify(p) ==
    /\ hasUrl
    /\ p \in DOMAIN RemoteItems
    /\ RemoteItems[p].vals.text # RemoteText
    /\ RemoteCommit([RemoteItems EXCEPT ![p].vals.text = RemoteText])

RemoteDelete(p) ==
    /\ hasUrl
    /\ p \in DOMAIN RemoteItems
    /\ RemoteCommit(Drop(RemoteItems, p))

RemoteAdd ==
    /\ hasUrl
    /\ path_from_ident(remote_ident) \notin DOMAIN RemoteItems
    /\ RemoteCommit(Put(RemoteItems, path_from_ident(remote_ident), SeedItem))

\* one replica, with or without a server that another replica also
\* writes to; the replica works on the item the other replica made
Next ==
    \/ \E pfx \in LocalPrefixes : Startup(pfx, TRUE)
    \/ Stop
    \/ Create("Simple", <<"x">>, <<>>)
    \/ Update(remote_ident, <<"x">>, <<>>)
    \/ Delete(remote_ident)
    \/ Clone(remote_ident)
    \/ GetAll
    \/ Pull(TRUE)
    \/ \E force \in BOOLEAN, net \in BOOLEAN : Push(force, net)
    \/ RemoteModify(path_from_ident(remote_ident))
    \/ RemoteDelete(path_from_ident(remote_ident))
    \/ RemoteAdd

Spec == Init /\ [][Next]_vars

\* one replica without a server: the operations on its own items, what a
\* request may carry, and the process dying inside a mutation
InitItems == InitWith({FALSE}, {FALSE})

NextItems ==
    \/ \E pfx \in LocalPrefixes : Startup(pfx, TRUE)
    \/ Stop
    \/ \E bid \in {<<>>, default_context} : Create("Simple", <<"x">>, bid)
    \/ \E type \in Types : Create(type, <<>>, <<>>)
    \/ \E ident \in IdentPool, bid \in {<<>>, default_context} :
           Update(ident, <<"x">>, bid)
    \/ \E ident \in IdentPool : Delete(ident)
    \/ \E ident \in IdentPool : Clone(ident)
    \/ \E ident \in IdentPool : ItemAction(ident, "Close", <<>>)
    \/ GetAll
    \/ CheckData
    \/ CrashInCreate("Simple", <<"x">>)
    \/ \E ident \in IdentPool : CrashInUpdate(ident)
    \/ \E ident \in IdentPool : CrashInDelete(ident)

SpecItems == InitItems /\ [][NextItems]_vars

\* one replica of a server of tasks: the two tasks it clones, what may
\* block them (a task, or an ident of no item), the show-after dates of the
\* tasks the user makes and the times of day
InitTasks == InitFrom({TRUE}, {FALSE}, TaskSeedCommits) /\ ~writeToServer

TaskPool == {task_ident_1, task_ident_2}

BlockerPool == TaskPool \cup {<<"n">>}

ShowAfterDates == {2}

Times == {1, 3}

NextTasks ==
    \/ \E pfx \in LocalPrefixes : Startup(pfx, TRUE)
    \/ Stop
    \/ \E after \in ShowAfterDates : CreateTask(<<"t">>, after)
    \/ \E ident \in TaskPool, act \in {"Close", "Reopen"} :
           ItemAction(ident, act, <<>>)
    \/ \E arg \in BlockerPool : ItemAction(task_ident_1, "BlockBy", arg)
    \/ ItemAction(task_ident_2, "BlockBy", task_ident_1)
    \/ ItemAction(task_ident_1, "UnblockBy", task_ident_2)
    \/ Clone(task_ident_1)
    \/ \E now \in Times : ListReady(now)

SpecTasks == InitTasks /\ [][NextTasks]_vars

\* one replica that is restarted under one prefix or another, and the
\* operations that take a number from the ident counter
IdentPrefixes == {<<"a">>, <<"c">>}

NextIdents ==
    \/ \E pfx \in IdentPrefixes : Startup(pfx, TRUE)
    \/ Stop
    \/ \E bid \in {<<>>, default_context} : Create("Simple", <<"x">>, bid)
    \/ Clone(default_context)
    \/ CrashInCreate("Simple", <<"x">>)

SpecIdents == Init /\ [][NextIdents]_vars

\* one replica, with or without a server, with auto-link on or off: the
\* idents a Show request may name (the item of the other replica, and an
\* ident of no item) are resolved through World::get_item, the stores are
\* cross-checked, and the item, a Simple, is asked to close
InitLinks == InitWith(BOOLEAN, BOOLEAN)

LinkPool == {remote_ident, <<"n">>}

NextLinks ==
    \/ \E pfx \in LocalPrefixes : Startup(pfx, TRUE)
    \/ Stop
    \/ \E ident \in LinkPool : ItemAction(ident, "Show", <<>>)
    \/ \E ident \in LinkPool : Delete(ident)
    \/ ItemAction(remote_ident, "Close", <<>>)
    \/ Pull(TRUE)
    \/ CheckData
    \/ RemoteDelete(path_from_ident(remote_ident))

SpecLinks == InitLinks /\ [][NextLinks]_vars

\* the items whose serialisation is tried.  A base has a parent or none, is
\* targeted or not, and has its other fields all at their defaults or none
\* at its default; a task has a context or none, a project or none, and
\* its other fields all at their defaults or none.  A parent, a project
\* and a blocker are tasks of the store
SerdeBases ==
    {b \in [ident : {<<"x", "-", "a", "1">>}, type : Types,
            parent : {<<>>, <<task_ident_1>>}, sort : {<<>>, <<"s">>},
            classify : {"normal", "work"}, can_be_parent : BOOLEAN,
            can_be_context : BOOLEAN, targeted : BOOLEAN, when_created : {1},
            when_modified : {1}] :
        /\ (b.sort = <<>>) <=> (b.classify = "normal")
        /\ (b.sort = <<>>) <=> ~b.can_be_parent
        /\ (b.sort = <<>>) <=> ~b.can_be_context}

SerdeTasks ==
    {t \in [name : {<<"t">>}, text : {<<>>, <<"a">>},
            context : {<<>>, <<default_context>>}, status : {"Open", "Closed"},
            priority : {10}, when_closed : {Epoch, 1},
            project : {<<>>, task_ident_1}, deadline : {Epoch},
            show_after_date : {Epoch, 2}, blockedby : {<<>>, <<task_ident_2>>}] :
        /\ (t.text = <<>>) <=> (t.status = "Open")
        /\ (t.text = <<>>) <=> (t.when_closed = Epoch)
        /\ (t.text = <<>>) <=> (t.show_after_date = Epoch)
        /\ (t.text = <<>>) <=> (t.blockedby = <<>>)}

SerdeSimples == [name : {<<"x">>}, text : {<<>>, <<"a">>}]

SerdeItems ==
    {[base |-> b, data |-> d] : b \in {x \in SerdeBases : x.type = "Task"},
                                d \in SerdeTasks}
    \cup {[base |-> b, data |-> d] : b \in {x \in SerdeBases : x.type = "Simple"},
                                     d \in SerdeSimples}

\* the times at which an item is written and read back
SerdeTimes == {2, 3}

\* Item::to_yaml of an item in memory, at the time now
Serialize(item, now) ==
    /\ up
    /\ \E r \in {to_json(item, now)} :
           /\ SetW(W)
           /\ last' = [act |-> "to_json", res |-> Res(r.ok), note |-> "none",
                       tags |-> <<>>, list |-> {}, now |-> now,
                       item |-> item, json |-> r.json]

\* what was written is read back at the time now: split_data_parts and
\* World::make_and_populate_item
Deserialize(now) ==
    /\ up
    /\ last.act = "to_json"
    /\ last.res = "ok"
    /\ now > last.now
    /\ \E r \in {populate_item(W, last.json, now)} :
           /\ SetW(W)
           /\ last' = [act |-> "from_json", res |-> Res(r.ok), note |-> "none",
                       tags |-> <<>>, list |-> {}, now |-> now,
                       item |-> last.item, back |-> r.item]

\* one replica of the server of tasks, and the items it writes and reads
NextSerde ==
    \/ \E pfx \in LocalPrefixes : Startup(pfx, TRUE)
    \/ \E item \in SerdeItems, now \in SerdeTimes : Serialize(item, now)
    \/ \E now \in SerdeTimes : Deserialize(now)

SpecSerde == InitTasks /\ [][NextSerde]_vars

\* outside the program, while no engine runs, HEAD of the local repository
\* is made to name a commit and no branch
DetachHead ==
    /\ ~up
    /\ localPath = "present"
    /\ localHead # 0
    /\ headIsBranch
    /\ SetW([W EXCEPT !.headIsBranch = FALSE])
    /\ last' = L("DetachHead", "ok", "none")

\* what a server that holds no item directory yet has: one commit
BareSeedCommits == SubSeq(SeedCommits, 1, 1)

\* one replica and every structure its repository may be found in at
\* open: none yet (no server), a clone with or without the item
\* directory, and a HEAD that names no branch
InitStructure ==
    \E seed \in {SeedCommits, BareSeedCommits} : InitFrom(BOOLEAN, {FALSE}, seed)

NextStructure ==
    \/ \E pfx \in LocalPrefixes : Startup(pfx, TRUE)
    \/ Stop
    \/ Create("Simple", <<"x">>, <<>>)
    \/ DetachHead

SpecStructure == InitStructure /\ [][NextStructure]_vars

\* another replica pushes the item at the path as a record of another type
RemoteRetype(p) ==
    /\ hasUrl
    /\ p \in DOMAIN RemoteItems
    /\ RemoteItems[p].base.type_name = "Simple"
    /\ RemoteCommit([RemoteItems EXCEPT ![p].base.type_name = "Task",
                                        ![p].vals.status = "Open",
                                        ![p].vals.context = default_context])

\* one replica and a server: the replica and the other replica both
\* write the item the server began with, and the replica pulls
NextMerge ==
    \/ \E pfx \in LocalPrefixes : Startup(pfx, TRUE)
    \/ Stop
    \/ Update(remote_ident, <<"x">>, <<>>)
    \/ Delete(remote_ident)
    \/ Pull(TRUE)
    \/ RemoteModify(path_from_ident(remote_ident))
    \/ RemoteRetype(path_from_ident(remote_ident))

SpecMerge == Init /\ [][NextMerge]_vars

\* the tasks a merge may meet on either side: open or closed, of two
\* priorities, deadlines and show-after dates, blocked by nothing, by one
\* task, by two, or by one task twice (Task::block does not look for the
\* ident among the blockers it has)
MergeTasks ==
    {t \in [name : {<<"t">>}, text : {<<"a">>}, context : {<<default_context>>},
            status : {"Open", "Closed"}, priority : {0, 10},
            when_closed : {Epoch, 1}, project : {<<>>}, deadline : {Epoch, 1},
            show_after_date : {Epoch, 2},
            blockedby : {<<>>, <<task_ident_1>>, <<task_ident_2, task_ident_1>>,
                         <<task_ident_2, task_ident_2>>}] :
        /\ (t.status = "Closed") <=> (t.when_closed # Epoch)
        /\ (t.deadline = Epoch) <=> (t.show_after_date # Epoch)}

\* the Task policy resolves a conflict between two versions of a task
ResolveConflictBoth(ours, theirs) ==
    /\ up
    /\ SetW(W)
    /\ last' = [act |-> "resolve_conflict_both", res |-> "ok", note |-> "none",
                tags |-> <<>>, list |-> {}, now |-> 0,
                ours |-> ours, theirs |-> theirs,
                merged |-> task_resolve_conflict_both(ours, theirs)]

\* the date strings a request may carry: as "%F %T" wants them, with a T
\* between date and time, and with a zone after the time
FormDates ==
    {[sep |-> " ", zone |-> "", t |-> 1], [sep |-> "T", zone |-> "", t |-> 1],
     [sep |-> " ", zone |-> "Z", t |-> 1]}

\* the values of a request for a Task: each field right or wrong, and the
\* deadline there or not
CheckVals ==
    [name : {<<>>, <<"t">>},
     priority : {<<"5">>, <<"x">>, <<"3", "0", "0">>, <<"-", "1">>},
     deadline : FormDates, show_after_date : FormDates]
    \cup [name : {<<>>, <<"t">>},
          priority : {<<"5">>, <<"x">>, <<"3", "0", "0">>, <<"-", "1">>},
          show_after_date : FormDates]

\* the Task policy validates the values of a request
CheckValid(vals) ==
    /\ up
    /\ SetW(W)
    /\ \E r \in {task_check_valid(vals)} :
           last' = [act |-> "check_valid",
                    res |-> IF ~r.ok THEN "error"
                            ELSE IF r.specifics = <<>> THEN "ok" ELSE "failure",
                    note |-> "none", list |-> {}, now |-> 0, vals |-> vals,
                    tags |-> IF r.ok THEN specifics_to_response(r.specifics)
                             ELSE <<>>]

\* the policies of the Task type, each applied to what it may be given
NextPolicy ==
    \/ \E pfx \in LocalPrefixes : Startup(pfx, TRUE)
    \/ \E ours \in MergeTasks, theirs \in MergeTasks :
           ResolveConflictBoth(ours, theirs)
    \/ \E vals \in CheckVals : CheckValid(vals)

SpecPolicy == InitTasks /\ [][NextPolicy]_vars

\* n times the character c
Rep(c, n) == [i \in 1..n |-> c]

\* the names an ident may be asked for: plain, with runs of other
\* characters inside, in front and behind, of nothing but such characters,
\* and around the length at which the slug is cut
SlugNames ==
    {<<"x">>, <<"a", "!", "b">>, <<"a", "!", " ", "b">>, <<"a", " ", "b", "?", "?", "c">>,
     <<"!", "a">>, <<"-", "a">>, <<"?", "?", "a">>, <<"a", "-">>, <<"a", "!", "!">>,
     <<"!">>, <<"-", "-">>, <<"?">>, <<"-", "?", "-">>, <<>>,
     <<"A", "_", "9">>, <<"0">>}
    \cup {Rep("a", n) : n \in (max_len - 1)..(max_len + 2)}
    \cup {<<"!", "!">> \o Rep("b", n) : n \in (max_len - 1)..(max_len + 1)}
    \cup {Rep("c", max_len - 1) \o <<"!", "!", "d">>,
          Rep("c", max_len - 2) \o <<" ", " ", " ", "d", "d">>}

\* Store::make_identifier is asked for the ident of a name
MakeIdentifier(name) ==
    /\ up
    /\ next_ident_num < MaxIdentNum
    /\ \E r \in {make_identifier(uniq_pfx, name, next_ident_num)} :
           /\ SetW([W EXCEPT !.next_ident_num = r.num])
           /\ last' = [act |-> "make_identifier", res |-> Res(r.ok),
                       note |-> "none", tags |-> <<>>, list |-> {}, now |-> 0,
                       name |-> name, pfx |-> uniq_pfx, num |-> r.num,
                       ident |-> r.ident]

\* one replica under one of several prefixes, asked for idents
NextSlugs ==
    \/ \E pfx \in IdentPrefixes \cup {<<"p", "7">>} : Startup(pfx, TRUE)
    \/ Stop
    \/ \E name \in SlugNames : MakeIdentifier(name)

SpecSlugs == Init /\ [][NextSlugs]_vars

\* one replica and the commands and events of its engine
NextEngine ==
    \/ \E pfx \in LocalPrefixes : Startup(pfx, TRUE)
    \/ Stop
    \/ Create("Simple", <<"x">>, <<>>)
    \/ ItemAction(default_context, "Show", <<>>)
    \/ \E force \in BOOLEAN, net \in BOOLEAN : Push(force, net)
    \/ EngineAction("Shutdown", FALSE, TRUE)
    \/ \E force \in BOOLEAN, net \in BOOLEAN : EngineAction("PushAndQuit", force, net)
    \/ \E event \in CycleEvents, net \in BOOLEAN : CycleEvent(event, net)
    \/ RemoteModify(path_from_ident(remote_ident))

SpecEngine == Init /\ [][NextEngine]_vars

\* ------------------------------------------------------------ properties
\* the idents of the item paths in the Content Store
StoreIdents == {ident_from_path(p) : p \in list_all_items(W)}

\* the Index a rebuild from the Content Store would hold
IndexOfStore ==
    [i \in StoreIdents |->
        row_of(make_and_populate_item(get_latest_tree(W).items[path_from_ident(i)]))]

\* C1 (ident stability): an item keeps the ident it was registered under,
\* and no two live items share an ident, whatever ident a Create or Update
\* request carries in its base fields.  The live items are the objects of
\* Store.known, each registered under the ident it then had.
C1_IdentStability ==
    \A j, k \in DOMAIN known :
        /\ known[k].ident = k
        /\ (j # k => known[j].ident # known[k].ident)

\* C2 (consistency after rebuild): when GetAll, or a startup that took the
\* LoadAll path, has completed, every item path of the Content Store has
\* its Index row, every Index row has its path, and check_data counts no
\* discrepancy
C2_RebuildConsistent ==
    (/\ last.res = "ok"
     /\ \/ last.act = "GetAll"
        \/ last.act = "Startup" /\ last.note = "LoadAll")
    => /\ check_data(W).missing_from_search = 0
       /\ check_data(W).missing_from_store = 0
       /\ \A p \in list_all_items(W) : ident_from_path(p) \in DOMAIN index
       /\ \A i \in DOMAIN index : path_from_ident(i) \in list_all_items(W)

\* a rebuild has completed over a store that a merge commit had changed
\* behind the Index
C2_Witness ==
    /\ last.act = "GetAll"
    /\ last.res = "ok"
    /\ Len(commits[localHead].parents) = 2
    /\ DOMAIN index # {}

\* C3 (a failure between the two writes is detected): after the process
\* has died between the Content Store write and the Index write of a
\* create, an update or a delete, and the two stores differ, check_data
\* counts a discrepancy
C3_DivergenceDetected ==
    (last.act = "Crash" /\ index # IndexOfStore)
    => \/ check_data(W).missing_from_search > 0
       \/ check_data(W).missing_from_store > 0

\* C4 (merge idempotence): a pull whose merge outcome is AlreadyUpToDate
\* creates no commit, writes nothing to the Index and leaves the
\* needs-push flag as it was
C4_AlreadyUpToDateFrame ==
    [][(Pull(TRUE) /\ last'.note = "AlreadyUpToDate")
       => /\ commits' = commits
          /\ localHead' = localHead
          /\ index' = index
          /\ lastIdent' = lastIdent
          /\ needs_push' = needs_push]_vars

\* a pull has answered AlreadyUpToDate over a history that holds commits
\* of this replica
C4_Witness ==
    /\ last.act = "Pull"
    /\ last.note = "AlreadyUpToDate"
    /\ last.res = "ok"
    /\ localHead > Len(SeedCommits)

\* C5 (conflicts are resolved and committed): a pull whose merge outcome
\* is Conflict resolves every conflicting path and commits the merge, so
\* it succeeds and the local head is then a merge commit
C5_ConflictCommitted ==
    (last.act = "Pull" /\ last.note = "Conflict")
    => /\ last.res = "ok"
       /\ Len(commits[localHead].parents) = 2

\* C6 (needs-push never set without a server to write to): the flag is
\* false in every state of a replica that has no remote URL or has
\* write-to-server disabled
C6_NoPushWithoutServer == (~hasUrl \/ ~writeToServer) => ~needs_push

\* a replica that may not write to its server has committed a merge, and
\* the flag is still false
C6_Witness ==
    /\ hasUrl
    /\ ~writeToServer
    /\ last.act = "Pull"
    /\ last.note = "Merged"
    /\ last.res = "ok"
    /\ Len(commits[localHead].parents) = 2
    /\ ~needs_push

\* a step of the running engine is a Push
PushStep == \E force \in BOOLEAN, net \in BOOLEAN : Push(force, net)

\* C7 (life of the needs-push flag): with a remote URL and write-to-server
\* enabled, in the running engine, the flag is true after every step that
\* creates a local commit, it is true whenever the local head is a commit
\* the server does not have, it goes from true to false only in a Push
\* that succeeds and hands the local head to the server, it is false
\* after a Push that succeeds, and a Push that fails leaves it true
C7_NeedsPushLife ==
    [][(hasUrl /\ writeToServer /\ up')
       => /\ (localHead' # localHead /\ Len(commits') > Len(commits))
                 => needs_push'
          /\ localHead' \notin Ancestors(commits', remoteHead') => needs_push'
          /\ (up /\ needs_push /\ ~needs_push')
                 => (PushStep /\ last'.res = "ok" /\ remoteHead' = localHead)
          /\ (PushStep /\ last'.res = "ok") => ~needs_push'
          /\ (PushStep /\ last'.res = "error")
                 => (needs_push /\ needs_push')]_vars

\* a push has failed after a local commit, and the flag is still true
C7_Witness ==
    /\ hasUrl
    /\ writeToServer
    /\ last.act = "Push"
    /\ last.res = "error"
    /\ localHead \notin Ancestors(commits, remoteHead)
    /\ needs_push

\* C8 (the flag is advisory only): with a remote URL, a Push that succeeds
\* has transmitted the local branch, whatever the flag was: the head of
\* the server is then the local head
C8_PushTransmits ==
    [][(PushStep /\ hasUrl /\ last'.res = "ok")
       => remoteHead' = localHead']_vars

\* C8, as the program has it: a Push goes to the server only when the
\* flag is set; then, if it succeeds, the head of the server is the local
\* head and the flag is false.  With the flag not set a Push succeeds and
\* changes nothing, on the replica or on the server
C8_PushWhenFlagged ==
    [][(PushStep /\ hasUrl /\ last'.res = "ok")
       => IF needs_push
          THEN remoteHead' = localHead /\ ~needs_push'
          ELSE /\ remoteHead' = remoteHead
               /\ needs_push' = needs_push
               /\ commits' = commits]_vars

\* a Push has succeeded without the flag, and the server does not have
\* the local head
C8_Witness ==
    /\ hasUrl
    /\ last.act = "Push"
    /\ last.res = "ok"
    /\ ~needs_push
    /\ localHead \notin Ancestors(commits, remoteHead)

\* a step constructs the engine
StartupStep == \E pfx \in LocalPrefixes : Startup(pfx, TRUE)

\* C9 (the three ways of opening the Content Store): a local repository
\* that exists is opened, with its history kept, and ProcessChanges is
\* reported; with none and a remote URL the server's branch is cloned and
\* LoadAll is reported; with none and no URL an empty repository is
\* initialized and NoAction is reported
C9_OpenBranches ==
    [][StartupStep
       => /\ localPath = "present"
                 => /\ last'.note = "ProcessChanges"
                    /\ localPath' = "present"
                    /\ localHead \in Ancestors(commits', localHead')
          /\ (localPath = "absent" /\ hasUrl)
                 => /\ last'.note = "LoadAll"
                    /\ last'.res = "ok"
                           => /\ localPath' = "present"
                              /\ remoteHead \in Ancestors(commits', localHead')
          /\ (localPath = "absent" /\ ~hasUrl)
                 => /\ last'.note = "NoAction"
                    /\ last'.res = "ok"
                           => /\ localPath' = "present"
                              /\ commits = <<>>
                              /\ list_all_items(W)' \subseteq
                                     {path_from_ident(default_context)}]_vars

\* an engine has started over the repository an earlier one cloned
C9_Witness ==
    /\ hasUrl
    /\ up
    /\ last.act = "Startup"
    /\ last.res = "ok"
    /\ last.note = "ProcessChanges"

\* C10 (every mutation is flushed at once): no change is pending when an
\* operation of the Store has returned, and the assertion of the Store's
\* drop never fails
C10_PendingFlushed ==
    /\ pending_changes = <<>>
    /\ ~(last.act = "Stop" /\ last.res = "error")

\* the idents and payloads the reads of C11 are tried with
ReadIdents == {remote_ident, default_context, <<"n">>}
ReadBlobs == {SeedItem, [SeedItem EXCEPT !.vals.text = UpdateText]}

\* C11 (a read returns the last committed payload): in the running
\* engine, once a change to an ident is committed, Store::get_item_parts
\* of that ident returns exactly the payload of an Add or a Modify, and
\* fails after a Delete, while the read of every other ident is as before;
\* the read of an ident with no file in the latest tree is an error, never
\* an empty payload; and after an Update that succeeded the read returns
\* the serialisation of the updated item
C11_ReadLatest ==
    (up /\ localHead # 0)
    => /\ \A i \in ReadIdents, op \in {"Add", "Modify", "Delete"}, b \in ReadBlobs :
              \A r \in {repo_apply_changes(W, <<Change(op, path_from_ident(i), b)>>)} :
                  r.ok => /\ op # "Delete"
                                 => get_item_parts(r.w, i) = [ok |-> TRUE, blob |-> b]
                          /\ op = "Delete" => ~get_item_parts(r.w, i).ok
                          /\ \A j \in ReadIdents \ {i} :
                                 get_item_parts(r.w, j) = get_item_parts(W, j)
       /\ \A i \in ReadIdents \cup {<<>>} :
              /\ get_item_parts(W, i).ok
                     <=> (i # <<>> /\ path_from_ident(i) \in list_all_items(W))
              /\ ~get_item_parts(W, i).ok => get_item_parts(W, i).blob = NoBlob
       /\ (last.act = "Update" /\ last.res = "ok" /\ remote_ident \in DOMAIN known)
              => get_item_parts(W, remote_ident)
                     = [ok |-> TRUE, blob |-> to_yaml(known[remote_ident])]
       /\ (last.act = "Delete" /\ last.res = "ok")
              => ~get_item_parts(W, remote_ident).ok

\* an item was updated and then deleted: its read, which gave the updated
\* payload, is now an error
C11_Witness ==
    /\ up
    /\ last.act = "Delete"
    /\ last.res = "ok"
    /\ ~get_item_parts(W, remote_ident).ok
    /\ \E c \in 1..Len(commits) :
           /\ path_from_ident(remote_ident) \in DOMAIN commits[c].tree.items
           /\ commits[c].tree.items[path_from_ident(remote_ident)].vals.text
                  = UpdateText

C13_SessionContinues ==
    [][(up /\ last.res = "error" /\ Create("Simple", <<"x">>, <<>>))
       => last'.res = "ok"]_vars

\* C14 (a required shutdown is signalled by the flag): the response of a
\* Shutdown action, of a PushAndQuit action and of a Stop or StopPC event
\* that was carried out has shutdown_required set
C14_ShutdownSignalled ==
    (/\ last.act \in {"Shutdown", "PushAndQuit", "CycleStop", "CycleStopPC"}
     /\ last.res = "ok")
    => last.note = "shutdown_required"

\* the names of the tags of the last response, in their order
TagNames == [k \in 1..Len(last.tags) |-> last.tags[k].tag]

\* C15 (the always tag): the response of every World-level or Item-level
\* action that succeeded (or answered Failure) ends with the always tag,
\* the only one of that name, and its value is what the needs-push flag
\* is after the action; the response of Show is content, then always
C15_AlwaysTag ==
    (/\ last.act \in {"Create", "Update", "Delete", "Clone", "GetAll",
                      "CheckData", "Pull", "Push", "Show", "Close"}
     /\ last.res # "error")
    => /\ last.tags # <<>>
       /\ last.tags[Len(last.tags)]
              = Tag("always", IF needs_push THEN "needs push" ELSE "pushed")
       /\ \A k \in 1..(Len(last.tags) - 1) : last.tags[k].tag # "always"
       /\ last.act = "Show" => TagNames = <<"content", "always">>
       /\ last.act = "Create" /\ last.res = "ok"
              => TagNames = <<"name-error", "content", "always">>

\* a Create has left a commit to push, and its response says so after its
\* own tags
C15_Witness ==
    /\ last.act = "Create"
    /\ last.res = "ok"
    /\ needs_push
    /\ Len(last.tags) = 3
    /\ last.tags[3] = Tag("always", "needs push")

\* whether the blocker b is a still-open item, read from the cached item or
\* else from the item's file in the latest tree
BlockerOpen(b) ==
    IF b \in DOMAIN known THEN known[b].open
    ELSE /\ repo_has_file(W, path_from_ident(b))
         /\ get_latest_tree(W).items[path_from_ident(b)].vals.status # "Closed"

\* the exclusions of readiness for the cached task id at the time now
NotOpen(id) == ~known[id].open

ShownLater(id, now) ==
    known[id].show_after # Epoch /\ known[id].show_after > now

Blocked(id) ==
    \E i \in DOMAIN known[id].blockedby : BlockerOpen(known[id].blockedby[i])

Excluded(id, now) == NotOpen(id) \/ ShownLater(id, now) \/ Blocked(id)

CachedTasks == {id \in DOMAIN known : known[id].type = "Task"}

\* C16: Task readiness.  Whenever Task::is_ready gives a verdict on a task,
\* at any time of day: a task that is not open is not ready, a task whose
\* show-after date is in the future is not ready, a task with a still-open
\* blocker is not ready, and a task with none of these exclusions is ready;
\* and a ListReady response lists exactly the indexed tasks without an
\* exclusion.
C16_Readiness ==
    /\ \A id \in CachedTasks, now \in Times :
           \E r \in {is_ready(W, known[id], now)} :
               /\ NotOpen(id) => ~(r.ok /\ r.ready)
               /\ ShownLater(id, now) => ~(r.ok /\ r.ready)
               /\ Blocked(id) => ~(r.ok /\ r.ready)
               /\ (r.ok /\ ~Excluded(id, now)) => r.ready
    /\ (last.act = "ListReady" /\ last.res = "ok")
           => \A id \in CachedTasks \cap DOMAIN index :
                  id \in last.list <=> ~Excluded(id, last.now)

\* a ListReady response that lists one task and leaves out another whose
\* show-after date has not come
C16_Witness ==
    /\ last.act = "ListReady" /\ last.res = "ok"
    /\ \E a, b \in CachedTasks \cap DOMAIN index :
           /\ a \in last.list
           /\ b \notin last.list
           /\ known[b].open /\ known[b].blockedby = <<>>
           /\ ShownLater(b, last.now)

\* the blocking scene: both tasks are open and the first is blocked by the
\* second and by nothing else
BlockScene ==
    /\ {task_ident_1, task_ident_2} \subseteq DOMAIN known
    /\ known[task_ident_1].open /\ known[task_ident_2].open
    /\ known[task_ident_1].blockedby = <<task_ident_2>>
    /\ known[task_ident_1].show_after = Epoch

\* the step that closes the second task of the blocking scene
CloseBlockerStep ==
    /\ BlockScene
    /\ ItemAction(task_ident_2, "Close", <<>>) /\ last'.res = "ok"
    /\ ~known'[task_ident_2].open

\* C17 as stated: in the blocking scene the first task is not ready while
\* the second is open, closing the second makes the first ready, and the
\* count of a ListReady result grows by exactly one across the close.
C17_CountGrows ==
    [][/\ BlockScene =>
              \A now \in Times : \E b \in {list_ready(W, now)} :
                  b.ok => task_ident_1 \notin b.list
       /\ CloseBlockerStep =>
              \A now \in Times :
                  \E b \in {list_ready(W, now)}, a \in {list_ready(W', now)} :
                      (b.ok /\ task_ident_2 \in b.list)
                          => /\ a.ok /\ task_ident_1 \in a.list
                             /\ Cardinality(a.list) = Cardinality(b.list) + 1]_vars

\* C17: in the blocking scene the first task is not ready while the second
\* is open; closing the second, which was ready, makes the first ready and
\* takes the second, now closed, off the list, so the count of a ListReady
\* result is the same before and after the close.
C17_Blocking ==
    [][/\ BlockScene =>
              \A now \in Times : \E b \in {list_ready(W, now)} :
                  b.ok => task_ident_1 \notin b.list
       /\ CloseBlockerStep =>
              \A now \in Times :
                  \E b \in {list_ready(W, now)}, a \in {list_ready(W', now)} :
                      (b.ok /\ task_ident_2 \in b.list)
                          => /\ a.ok
                             /\ a.list = (b.list \ {task_ident_2})
                                             \cup {task_ident_1}
                             /\ Cardinality(a.list) = Cardinality(b.list)]_vars

\* a ListReady response after the blocker was closed: it lists the first
\* task, still linked to the second, and not the second
C17_Witness ==
    /\ last.act = "ListReady" /\ last.res = "ok"
    /\ {task_ident_1, task_ident_2} \subseteq DOMAIN known
    /\ known[task_ident_1].blockedby = <<task_ident_2>>
    /\ ~known[task_ident_2].open
    /\ task_ident_1 \in last.list /\ task_ident_2 \notin last.list

\* the text of the item both replicas edit, as a commit holds it
TextAt(cs, c) == blob_at(cs, c, path_from_ident(remote_ident)).vals.text

\* a Pull that merges the two edits of the item: from the common ancestor
\* this replica has made the text "bbbb", the replica that pushed first has
\* made it "cccc", and the pull answers Conflict and succeeds
MergeStep ==
    /\ up /\ localHead # 0
    /\ TextAt(commits, localHead) = UpdateText
    /\ TextAt(commits, remoteHead) = RemoteText
    /\ TextAt(commits, merge_base(commits, localHead, remoteHead))
           = SeedItem.vals.text
    /\ \E net \in BOOLEAN : Pull(net)
    /\ last'.note = "Conflict" /\ last'.res = "ok"

\* a Push of a replica that holds the merged text m and that hands its
\* branch to the server
PushOf(m) ==
    /\ up /\ localHead # 0
    /\ TextAt(commits, localHead) = m
    /\ PushStep /\ last'.res = "ok"
    /\ remoteHead' # remoteHead

\* what is persisted and what the server then gives: the replica reads the
\* text m from its Store after the merge, and after its push the head of
\* the server, which a pull of any replica brings in, holds m
MergedAs(m) ==
    /\ MergeStep
           => \E g \in {get_item_parts(W', remote_ident)} :
                  g.ok /\ g.blob.vals.text = m
    /\ PushOf(m)
           => /\ TextAt(commits', remoteHead') = m
              /\ \E g \in {get_item_parts(W', remote_ident)} :
                     g.ok /\ g.blob.vals.text = m

\* C18 as stated: the first replica has made the text "cccc" and pushed,
\* the second has made it "bbbb"; the pull of the second ends with the
\* text "ccccbbbb" persisted locally, and after its push a pull of any
\* replica reads that text.
C18_TheirsFirst == [][MergedAs(RemoteText \o UpdateText)]_vars

\* C18: the pull of the second replica ends with its own text followed by
\* the text it pulled, "bbbbcccc", persisted locally, and after its push a
\* pull of any replica reads that text.
C18_OursFirst == [][MergedAs(UpdateText \o RemoteText)]_vars

\* the second replica has pushed the merge: the server holds "bbbbcccc"
C18_Witness ==
    /\ last.act = "Push" /\ last.res = "ok"
    /\ remoteHead = localHead
    /\ Len(commits[localHead].parents) = 2
    /\ TextAt(commits, remoteHead) = UpdateText \o RemoteText

\* the items of the latest tree of the world w, by path
StoreItems(w) == IF w.localHead = 0 THEN EmptyFn ELSE get_latest_tree(w).items

\* a Clone of the first task answers ok while the task is Closed in the
\* Store and in the cache
CloneOfClosedStep ==
    /\ Clone(task_ident_1)
    /\ last'.res = "ok"
    /\ path_from_ident(task_ident_1) \in DOMAIN StoreItems(W)
    /\ StoreItems(W)[path_from_ident(task_ident_1)].vals.status = "Closed"

\* C19: a Clone of a Closed Task adds exactly one item; its ident is fresh
\* (no item of the Store or row of the Index had it) and differs from the
\* source's, it is an Open Task without blockers with the text, the name
\* and the context of the source, the Index lists it as open, and the
\* source is unchanged in the Store, the cache and the Index.
C19_CloneOfClosed ==
    [][CloneOfClosedStep
       => \E src \in {path_from_ident(task_ident_1)} :
          \E new \in {DOMAIN StoreItems(W') \ DOMAIN StoreItems(W)} :
              /\ Cardinality(new) = 1
              /\ \A p \in new : \E b \in {StoreItems(W')[p]} :
                     \E s \in {StoreItems(W)[src]} :
                         /\ b.base.ident # task_ident_1
                         /\ b.base.ident \notin DOMAIN index
                         /\ p = path_from_ident(b.base.ident)
                         /\ b.base.type_name = "Task"
                         /\ b.vals.status = "Open"
                         /\ b.vals.blockedby = <<>>
                         /\ b.vals.text = s.vals.text
                         /\ b.vals.name = s.vals.name
                         /\ b.vals.context = s.vals.context
                         /\ b.base.ident \in DOMAIN index'
                         /\ index'[b.base.ident].open
              /\ StoreItems(W')[src] = StoreItems(W)[src]
              /\ task_ident_1 \in DOMAIN known
                     => (/\ task_ident_1 \in DOMAIN known'
                         /\ known'[task_ident_1] = known[task_ident_1])
              /\ task_ident_1 \in DOMAIN index
                     => (/\ task_ident_1 \in DOMAIN index'
                         /\ index'[task_ident_1] = index[task_ident_1])]_vars

\* a Closed task with a blocker has been cloned: the Store holds the source
\* as it was and an Open task of the same name without blockers
C19_Witness ==
    /\ last.act = "Clone" /\ last.res = "ok"
    /\ path_from_ident(task_ident_1) \in DOMAIN StoreItems(W)
    /\ \E s \in {StoreItems(W)[path_from_ident(task_ident_1)]} :
           /\ s.vals.status = "Closed"
           /\ s.vals.blockedby # <<>>
           /\ \E p \in DOMAIN StoreItems(W) : \E b \in {StoreItems(W)[p]} :
                  /\ b.base.ident \notin TaskPool
                  /\ b.base.type_name = "Task"
                  /\ b.vals.status = "Open"
                  /\ b.vals.blockedby = <<>>
                  /\ b.vals.name = s.vals.name

\* the ident was generated under the prefix pfx with the number n: it ends
\* in a dash, the prefix and the number
generated_by(ident, pfx, n) ==
    \E t \in {<<"-">> \o pfx \o NumStr(n)} :
        /\ Len(ident) > Len(t)
        /\ SubSeq(ident, Len(ident) - Len(t) + 1, Len(ident)) = t

\* the ident has the form of a generated one
generated(ident) ==
    \E pfx \in IdentPrefixes, n \in 1..MaxIdentNum : generated_by(ident, pfx, n)

\* C20: the counter of the Index never goes back; in the running engine the
\* counter of the Store is the one the Index holds (kept after each
\* allocation, read again at startup); and a generated ident under which
\* the running engine adds an item to the Store has the prefix of the
\* engine and a number that is one more than the counter was and greater
\* than the number of every ident generated before it, under whatever
\* prefix.
C20_CounterGrows ==
    [][/\ lastIdent' >= lastIdent
       /\ up' => next_ident_num' = lastIdent'
       /\ \A p \in DOMAIN StoreItems(W') \ DOMAIN StoreItems(W) :
              (up /\ path_has_ident(p) /\ generated(ident_from_path(p)))
                  => /\ lastIdent' = lastIdent + 1
                     /\ generated_by(ident_from_path(p), uniq_pfx, lastIdent')
                     /\ \A q \in DOMAIN StoreItems(W), pfx \in IdentPrefixes,
                           n \in 1..MaxIdentNum :
                            generated_by(ident_from_path(q), pfx, n)
                                => n < lastIdent']_vars

\* an item made under the prefix a, then, after a restart under the prefix
\* c, an item made with a greater number
C20_Witness ==
    /\ last.act = "Create" /\ last.res = "ok"
    /\ uniq_pfx = <<"c">>
    /\ \E p, q \in DOMAIN StoreItems(W) : \E n, m \in 1..MaxIdentNum :
           /\ generated_by(ident_from_path(p), <<"a">>, n)
           /\ generated_by(ident_from_path(q), <<"c">>, m)
           /\ n < m
           /\ m = lastIdent

\* the server's branch holds an item that can be a context
RemoteHasContext ==
    /\ remoteHead # 0
    /\ \E p \in DOMAIN commits[remoteHead].tree.items :
           /\ path_has_ident(p)
           /\ commits[remoteHead].tree.items[p].base.can_be_context

\* the search for contexts of the startup that begins here finds one: a
\* row of the Index that is there already, or one the ingest of a cloned
\* repository will add
ContextFound ==
    \/ search_contexts(W) # {}
    \/ (localPath = "absent" /\ hasUrl /\ RemoteHasContext)

\* C21 (startup sequence): a startup that completes leaves at least one
\* context in the Index, and its file in the Content Store.  The counter
\* it works with is the one read from the Index.  The search for contexts
\* comes after the ingest of a cloned repository and after the pull, so:
\* when a context is found, no item is made (the counter stays, the Index
\* gains no row but what the ingest adds, and the only commits written are
\* merge commits of the pull); when none is found, exactly the default
\* context is made, under the next number of the counter
C21_StartupSequence ==
    [][(StartupStep /\ last'.res = "ok")
       => /\ search_contexts(W)' # {}
          /\ next_ident_num' = lastIdent'
          /\ IF ContextFound
             THEN /\ lastIdent' = lastIdent
                  /\ localPath = "present" => index' = index
                  /\ \A c \in (Len(commits) + 1)..Len(commits') :
                         Len(commits'[c].parents) = 2
             ELSE /\ lastIdent' = lastIdent + 1
                  /\ DOMAIN index' = DOMAIN index \cup {default_context}
                  /\ default_context \in search_contexts(W)'
                  /\ path_from_ident(default_context) \in list_all_items(W)'
                  /\ Len(commits'[localHead'].parents) = 1]_vars

\* an engine has started again over a store that held its context, and
\* made nothing
C21_Witness ==
    /\ up
    /\ last.act = "Startup"
    /\ last.res = "ok"
    /\ last.note = "ProcessChanges"
    /\ lastIdent = 1
    /\ DOMAIN index = {default_context}
    /\ Len(commits) = 3

\* the ident has no file in the latest tree of the Content Store
NoFile(ident) == ~repo_has_file(W, path_from_ident(ident))

\* C22 (auto-link): a Show request resolves its ident through
\* World::get_item.  When the ident has no backing file: with auto-link
\* disabled the resolution fails and makes nothing (no commit, no Index
\* row, no advance of the counter); with auto-link enabled it succeeds,
\* and a placeholder item is stored under exactly that ident
C22_AutoLink ==
    [][\A ident \in LinkPool :
           (ItemAction(ident, "Show", <<>>) /\ NoFile(ident))
           => IF autoLink
              THEN /\ last'.res = "ok"
                   /\ ~NoFile(ident)'
                   /\ get_latest_tree(W)'.items[path_from_ident(ident)].base.ident
                          = ident
                   /\ ident \in DOMAIN index'
              ELSE /\ last'.res = "error"
                   /\ commits' = commits
                   /\ index' = index
                   /\ lastIdent' = lastIdent]_vars

\* C23 (check_data is a read-only audit): a CheckData request writes no
\* commit and moves no head, writes nothing in the Index, leaves the
\* needs-push flag, the cache and the counter as they were, and the
\* discrepancies it counts are all still there when it has run
C23_ReadOnlyAudit ==
    [][CheckData
       => /\ commits' = commits
          /\ localHead' = localHead
          /\ remoteHead' = remoteHead
          /\ index' = index
          /\ lastIdent' = lastIdent
          /\ needs_push' = needs_push
          /\ known' = known
          /\ pending_changes' = pending_changes
          /\ check_data(W)' = check_data(W)]_vars

\* the audit has run over an Index that holds a row the Content Store has
\* no file for, while a merge commit waits to be pushed
C23_Witness ==
    /\ up
    /\ last.act = "CheckData"
    /\ last.res = "ok"
    /\ needs_push
    /\ check_data(W).missing_from_store = 1

\* the fields of an item that are persisted: all but targeted and the two
\* timestamps, which are set anew when an item is written or read
Persisted(item) ==
    [base |-> [k \in DOMAIN item.base \ {"targeted", "when_created", "when_modified"} |->
                  item.base[k]],
     data |-> item.data]

\* C24 (round trip of the serialisation): an item that was serialised is
\* read back, and the item read equals the item written in every field
\* but targeted and the timestamps
C24_RoundTrip ==
    last.act = "from_json"
    => /\ last.res = "ok"
       /\ Persisted(last.back) = Persisted(last.item)

\* the round trip of the items that are not a task with a project and
\* without a parent
C24_RoundTripButProject ==
    (/\ last.act = "from_json"
     /\ ~(/\ last.item.base.type = "Task"
          /\ last.item.data.project # <<>>
          /\ last.item.base.parent = <<>>))
    => /\ last.res = "ok"
       /\ Persisted(last.back) = Persisted(last.item)

\* the paths that the local head and the head of the server have both
\* changed since their common ancestor, each in its own way
Overlaps ==
    {p \in DOMAIN commits[localHead].tree.items
           \cup DOMAIN commits[remoteHead].tree.items :
        \E b \in {blob_at(commits, merge_base(commits, localHead, remoteHead), p)} :
            /\ blob_at(commits, localHead, p) # blob_at(commits, remoteHead, p)
            /\ blob_at(commits, localHead, p) # b
            /\ blob_at(commits, remoteHead, p) # b}

\* C25 (merge classifies the heads): a Pull that reaches the server
\* fetches its head and compares it with the local head.  Identical heads
\* give AlreadyUpToDate; different heads with no path changed on both sides
\* give Merged; different heads with a path changed on both sides give
\* Conflict, and the index the outcome carries holds a conflict, with its
\* sides, for exactly those paths, and the merged entry of every other path
C25_MergeClassifies ==
    [][(Pull(TRUE) /\ hasUrl /\ localHead # 0 /\ remoteHead # 0)
       => /\ fetchHead' = remoteHead
          /\ last'.note = IF localHead = remoteHead THEN "AlreadyUpToDate"
                          ELSE IF Overlaps = {} THEN "Merged"
                          ELSE "Conflict"
          /\ localHead # remoteHead
                 => \E mo \in {merge(fetch(W))} :
                        /\ mo.ok
                        /\ DOMAIN mo.ix.conflicts = Overlaps
                        /\ \A p \in Overlaps :
                               /\ mo.ix.conflicts[p].our = blob_at(commits, localHead, p)
                               /\ mo.ix.conflicts[p].their
                                      = blob_at(commits, remoteHead, p)
                        /\ DOMAIN mo.ix.entries \cap Overlaps = {}]_vars

\* a pull has answered Conflict: this replica and another had both changed
\* the item
C25_Witness ==
    /\ last.act = "Pull"
    /\ last.note = "Conflict"
    /\ last.res = "ok"
    /\ Len(commits[localHead].parents) = 2
    /\ TextAt(commits, localHead) = UpdateText \o RemoteText

\* the actions of ActionKind::Item that go to the item's data
TypeActions == {"Archive", "Close", "Reopen", "BlockBy", "UnblockBy"}

\* the item of the ident is cached, and its type rejects the action
Rejects(ident, act) ==
    /\ ident \in DOMAIN known
    /\ ~data_do_action(known[ident], act, <<>>).ok

\* C26 (a rejected item action changes nothing): an action that goes to the
\* item's data and that the type of the item rejects (any on a Simple; on a
\* Task any but Close, Reopen, BlockBy and UnblockBy) ends in an error, and
\* it writes no commit, writes nothing in the Index and leaves the
\* needs-push flag as it was
C26_RejectedActionFrame ==
    [][\A ident \in LinkPool \cup TaskPool, act \in TypeActions :
           (ItemAction(ident, act, <<>>) /\ Rejects(ident, act))
           => /\ last'.res = "error"
              /\ commits' = commits
              /\ localHead' = localHead
              /\ index' = index
              /\ needs_push' = needs_push]_vars

\* the item that World::update_item_action hands to Search::update_item
Updated(ident, bid) ==
    update_item_prepare(W, ident, RequestBase(bid, "Simple"), UpdateVals(<<"x">>))

\* the item that World::delete_item_action hands to Search::delete_item
Deleted(ident) == get_item(W, ident)

\* C27 (Index update and delete touch exactly one row): Search::update_item
\* of an item whose ident has a row rewrites that one row, and
\* Search::delete_item removes that one row; an update or a delete of an
\* item whose ident has no row fails, and is never a silent no-op
C27_OneRow ==
    [][/\ \A ident \in IdentPool, bid \in {<<>>, default_context} :
              (Update(ident, <<"x">>, bid) /\ Updated(ident, bid).ok)
              => \A id \in {Updated(ident, bid).item.ident} :
                     IF id \in DOMAIN index
                     THEN /\ DOMAIN index' = DOMAIN index
                          /\ \A i \in DOMAIN index \ {id} : index'[i] = index[i]
                     ELSE /\ last'.res = "error"
                          /\ commits' = commits
       /\ \A ident \in IdentPool :
              (Delete(ident) /\ Deleted(ident).ok)
              => \A id \in {Deleted(ident).item.ident} :
                     IF id \in DOMAIN index
                     THEN /\ DOMAIN index' = DOMAIN index \ {id}
                          /\ \A i \in DOMAIN index' : index'[i] = index[i]
                     ELSE /\ last'.res = "error"
                          /\ commits' = commits
                          /\ index' = index]_vars

\* the part of C27 about Search::delete_item alone
C27_DeleteOneRow ==
    [][\A ident \in IdentPool :
           (Delete(ident) /\ Deleted(ident).ok)
           => \A id \in {Deleted(ident).item.ident} :
                  IF id \in DOMAIN index
                  THEN /\ DOMAIN index' = DOMAIN index \ {id}
                       /\ \A i \in DOMAIN index' : index'[i] = index[i]
                  ELSE /\ last'.res = "error"
                       /\ commits' = commits
                       /\ index' = index]_vars

\* the status FanlingRepository::new_open finds once the repository is
\* opened, initialised or cloned
FoundStatus == check_structure(new_from_options(W, TRUE).w)

\* C28 (the structure is healed at open): whatever the status found at
\* open (BadHead, HeadNotBranch, NoSubTree), the status is Good once the
\* repository is open and as long as an engine runs on it, and the open of
\* a repository found Good writes no commit
C28_SelfHealing ==
    [][\A pfx \in LocalPrefixes :
           (Startup(pfx, TRUE) /\ last'.res = "ok")
           => /\ check_structure(new_open(W, TRUE).w) = "Good"
              /\ check_structure(W)' = "Good"
              /\ FoundStatus = "Good" => new_open(W, TRUE).w.commits = commits]_vars

\* the part of C28 that starts from a HEAD on a branch
C28_HealsOnBranch ==
    [][\A pfx \in LocalPrefixes :
           (Startup(pfx, TRUE) /\ last'.res = "ok" /\ FoundStatus # "HeadNotBranch")
           => /\ check_structure(new_open(W, TRUE).w) = "Good"
              /\ check_structure(W)' = "Good"
              /\ FoundStatus = "Good" => new_open(W, TRUE).w.commits = commits]_vars

\* the merge a pull would now do ends in a conflict whose versions are not
\* all of one record type
TypeClash ==
    /\ hasUrl
    /\ localHead # 0
    /\ remoteHead # 0
    /\ \E mo \in {merge(fetch(W))} :
           /\ mo.ok
           /\ mo.kind = "Conflict"
           /\ \E p \in DOMAIN mo.ix.conflicts :
                  \E x, y \in {mo.ix.conflicts[p].ancestor, mo.ix.conflicts[p].our,
                              mo.ix.conflicts[p].their} \ {NoBlob} :
                      x.base.type_name # y.base.type_name

\* C29 (a conflict across record types aborts): a pull whose merge has a
\* conflicting path with versions of different record types fails; no
\* merge commit is written, the local head stays, and neither the Index
\* nor the cache takes a side
C29_TypeClashAborts ==
    [][(Pull(TRUE) /\ TypeClash)
       => /\ last'.res = "error"
          /\ commits' = commits
          /\ localHead' = localHead
          /\ index' = index
          /\ known' = known
          /\ pending_changes' = pending_changes]_vars

\* a pull has just failed on a conflict between a Simple and a Task of one
\* path, and the conflict is still there
C29_Witness ==
    /\ last.act = "Pull"
    /\ last.res = "error"
    /\ last.note = "Conflict"
    /\ fetchHead = remoteHead
    /\ TypeClash
    /\ \A c \in DOMAIN commits : Len(commits[c].parents) < 2

\* a pull that gets as far as Store::commit_merge: both heads exist and
\* World::handle_merge_outcome does not abort
ReachesCommitMerge ==
    /\ Pull(TRUE)
    /\ hasUrl
    /\ localHead # 0
    /\ remoteHead # 0
    /\ ~TypeClash

\* the step added one commit, with the local head and the fetched head as
\* its parents in that order, and made it the local head
OneMergeCommit ==
    /\ Len(commits') = Len(commits) + 1
    /\ SubSeq(commits', 1, Len(commits)) = commits
    /\ commits'[Len(commits')].parents = <<localHead, fetchHead'>>
    /\ fetchHead' = remoteHead
    /\ localHead' = Len(commits')

\* C30 (what commit_merge writes): for a Merged or a Conflict outcome
\* commit_merge writes exactly one commit, whose parents are the local
\* head and the fetched head in that order and which becomes the local
\* head; for AlreadyUpToDate it writes nothing
C30_MergeCommit ==
    [][ReachesCommitMerge
       => IF localHead = remoteHead
          THEN commits' = commits /\ localHead' = localHead
          ELSE OneMergeCommit]_vars

\* C30 for the outcomes whose index holds no conflict when commit_merge
\* gets it
C30_MergeCommitWhenResolved ==
    [][ReachesCommitMerge
       => IF localHead = remoteHead
          THEN commits' = commits /\ localHead' = localHead
          ELSE IF last'.res = "ok" THEN OneMergeCommit
          ELSE commits' = commits /\ localHead' = localHead]_vars

\* the elements of a sequence
Range(q) == {q[i] : i \in DOMAIN q}

\* no element of the sequence is there twice
NoDuplicates(q) == \A i, j \in DOMAIN q : q[i] = q[j] => i = j

\* the fields of a merged task the policy decides by rule, the blockers
\* as a set
PolicyFields(t) ==
    [status |-> t.status, priority |-> t.priority, deadline |-> t.deadline,
     show_after_date |-> t.show_after_date, blockedby |-> Range(t.blockedby)]

\* the rules of the Task merge policy, but for the duplicates
MergedByRule ==
    /\ last.merged.status
           = IF "Closed" \in {last.ours.status, last.theirs.status}
             THEN "Closed" ELSE "Open"
    /\ last.merged.priority = Min(last.ours.priority, last.theirs.priority)
    /\ last.merged.deadline = Min(last.ours.deadline, last.theirs.deadline)
    /\ last.merged.show_after_date
           = Min(last.ours.show_after_date, last.theirs.show_after_date)
    /\ Range(last.merged.blockedby)
           = Range(last.ours.blockedby) \cup Range(last.theirs.blockedby)
    /\ PolicyFields(last.merged)
           = PolicyFields(task_resolve_conflict_both(last.theirs, last.ours))

\* C31 (the Task merge policy): the merged task is closed if either side
\* is; its priority, deadline and show-after date are the smaller of the
\* two sides'; its blockers are those of both sides, none of them twice;
\* and these fields come out the same when ours and theirs are swapped
C31_TaskMergePolicy ==
    last.act = "resolve_conflict_both"
    => /\ MergedByRule
       /\ NoDuplicates(last.merged.blockedby)

\* C31 without the demand that no blocker is there twice
C31_TaskMergeRules == last.act = "resolve_conflict_both" => MergedByRule

\* the rule is violated by the values: its field is wrong, or not there
Violated(vals, rule) ==
    \/ rule.key \notin DOMAIN vals
    \/ ~RuleHolds(rule.key, vals[rule.key])

\* one tagged message for each rule the values violate, in rule order
ExpectedErrors(vals) ==
    The({[i \in DOMAIN bad |-> Tag(bad[i].tag, bad[i].msg)] :
         bad \in {SelectSeq(TaskRules, LAMBDA r : Violated(vals, r))}})

\* C33 (validation accumulates): a validation pass of a Task runs every
\* assertion and does not stop at the first violation; its response holds the
\* overall message and then one tagged message for each violated rule
\* (name, priority, deadline, show-after date), in rule order
C33_AllViolationsReported ==
    last.act = "check_valid"
    => /\ last.res = IF ExpectedErrors(last.vals) = <<>> THEN "ok" ELSE "failure"
       /\ Len(last.tags) = 1 + Len(ExpectedErrors(last.vals))
       /\ SubSeq(last.tags, 2, Len(last.tags)) = ExpectedErrors(last.vals)

\* C33 for the requests that carry every field of the Task form
C33_AllViolationsOfFullForm ==
    (last.act = "check_valid"
     /\ DOMAIN last.vals = {TaskRules[i].key : i \in DOMAIN TaskRules})
    => /\ last.res = IF ExpectedErrors(last.vals) = <<>> THEN "ok" ELSE "failure"
       /\ Len(last.tags) = 1 + Len(ExpectedErrors(last.vals))
       /\ SubSeq(last.tags, 2, Len(last.tags)) = ExpectedErrors(last.vals)

\* the places of a string that stay in its slug: every letter and digit,
\* and the first character of every run of other characters
SlugPlaces(s) ==
    {i \in DOMAIN s : s[i] \in Alnum \/ i = 1 \/ s[i - 1] \in Alnum}

RECURSIVE Collapsed(_, _)
\* the string from place i on, every run of characters that are neither
\* letter nor digit as one dash
Collapsed(s, i) ==
    IF i > Len(s) THEN <<>>
    ELSE IF i \notin SlugPlaces(s) THEN Collapsed(s, i + 1)
    ELSE <<IF s[i] \in Alnum THEN s[i] ELSE "-">> \o Collapsed(s, i + 1)

\* the slug of a basis string: runs collapsed, a dash in front taken off,
\* and no longer than max_len
Slug(s) ==
    The({SubSeq(t, 1, Min(Len(t), max_len)) :
         t \in {IF Collapsed(s, 1) # <<>> /\ Collapsed(s, 1)[1] = "-"
                THEN Tail(Collapsed(s, 1)) ELSE Collapsed(s, 1)}})

\* C34 (the form of a generated ident): every ident Store::make_identifier
\* gives is the slug of the basis, a dash, the prefix and the counter,
\* where the slug is the basis with each run of non-alphanumeric characters
\* as one dash, without a dash in front, and cut to max_len characters; no
\* such ident is empty or starts with a dash or a question mark
C34_IdentForm ==
    (last.act = "make_identifier" /\ last.res = "ok")
    => /\ last.ident = Slug(last.name) \o <<"-">> \o last.pfx \o NumStr(last.num)
       /\ Len(Slug(last.name)) <= max_len
       /\ last.ident # <<>>
       /\ last.ident[1] \notin {"-", "?"}
       /\ last.ident[1] \in Alnum

\* an ident was made of a name that is longer than the slug may be, starts
\* with a run of two other characters and holds another run inside
C34_Witness ==
    /\ last.act = "make_identifier"
    /\ last.res = "ok"
    /\ Len(last.name) > max_len + 2
    /\ last.name[1] \notin Alnum
    /\ last.name[2] \notin Alnum
    /\ Len(last.ident) = max_len + 2 + Len(last.pfx)
    /\ last.num = 2

\* the item of the ident, as World::get_item gives it, is there and closed
ClosedIn(w, id) == get_item(w, id).ok /\ ~get_item(w, id).item.open

\* the readiness predicate of the item of the ident at the time now: a
\* Simple is ready; a Task is ready when it is open, its show-after date is
\* not ahead, and each of its blockers is closed
ReadyAt(w, id, now) ==
    /\ get_item(w, id).ok
    /\ \E it \in {get_item(w, id).item} :
           \/ it.type = "Simple"
           \/ /\ it.open
              /\ it.show_after = Epoch \/ it.show_after <= now
              /\ \A i \in DOMAIN it.blockedby : ClosedIn(w, it.blockedby[i])

\* the open rows of the Index whose items are ready
ExactReady(w, now) ==
    {id \in DOMAIN w.index : w.index[id].open /\ ReadyAt(w, id, now)}

\* what ListReady would answer before and after the step, when it answers
ReadyLists(now) ==
    {[b |-> b.list, a |-> a.list] :
     b \in {r \in {list_ready(W, now)} : r.ok}, a \in {r \in {list_ready(W', now)} : r.ok}}

\* the first task is blocked by the second, which is open
BlockStep ==
    /\ ItemAction(task_ident_1, "BlockBy", task_ident_2)
    /\ last'.res = "ok"
    /\ get_item(W, task_ident_2).ok
    /\ get_item(W, task_ident_2).item.open

\* the first task, open and held back by nothing but the second, loses its
\* links to the second
UnblockStep ==
    /\ ItemAction(task_ident_1, "UnblockBy", task_ident_2)
    /\ last'.res = "ok"
    /\ \E it \in {get_item(W, task_ident_1).item} :
           /\ it.open
           /\ \E i \in DOMAIN it.blockedby : it.blockedby[i] = task_ident_2
           /\ \A i \in DOMAIN it.blockedby :
                  it.blockedby[i] = task_ident_2 \/ ClosedIn(W, it.blockedby[i])

\* C35 (ListReady follows BlockBy, UnblockBy and Close): a ListReady
\* response lists exactly the open rows of the Index whose items are ready
\* at the time of the query; BlockBy(T2) on T1 with T2 open takes T1 off
\* the list, a following UnblockBy(T2) puts it back, and the close of the
\* blocker T2 puts T1 on the list and takes T2 off
C35_ListReadyFollows ==
    [][/\ \A now \in Times :
              (ListReady(now) /\ last'.res = "ok")
              => last'.list = ExactReady(W, now)
       /\ BlockStep
              => \A now \in Times : \A l \in ReadyLists(now) :
                     l.a = l.b \ {task_ident_1}
       /\ UnblockStep
              => \A now \in Times : \A l \in ReadyLists(now) :
                     /\ l.b \subseteq l.a
                     /\ l.a \ l.b \subseteq {task_ident_1}
                     /\ get_item(W, task_ident_1).item.show_after <= now
                            => task_ident_1 \in l.a
       /\ CloseBlockerStep
              => \A now \in Times : \A l \in ReadyLists(now) :
                     /\ task_ident_2 \notin l.a
                     /\ task_ident_1 \in l.a]_vars

\* a ListReady response lists the first task again: the commit before the
\* head held it blocked by the second task, the head holds it unblocked,
\* and the second task is still open and listed
C35_Witness ==
    /\ last.act = "ListReady"
    /\ last.res = "ok"
    /\ {task_ident_1, task_ident_2} \subseteq last.list
    /\ Len(commits[localHead].parents) = 1
    /\ blob_at(commits, localHead, path_from_ident(task_ident_1)).vals.blockedby = <<>>
    /\ blob_at(commits, commits[localHead].parents[1],
               path_from_ident(task_ident_1)).vals.blockedby = <<task_ident_2>>

\* the cache entry under the key k holds what the head commit holds at the
\* path of k, and is the item of that ident
CoherentIn(w, k) ==
    /\ w.known[k].ident = k
    /\ blob_from_path(w, path_from_ident(k)).ok
    /\ blob_from_path(w, path_from_ident(k)).blob = to_yaml(w.known[k])

CacheCoherent(w) == \A k \in DOMAIN w.known : CoherentIn(w, k)

\* C36: after every completed action, each item of the known-items cache has
\* persisted fields equal to the blob at its path in the local head commit,
\* and the cache holds it under its own ident only.
C36_CacheCoherence == up => CacheCoherent(W)

\* C36, the part that holds: every action but a pull keeps a coherent cache
\* coherent.
C36_CoherentButForPull ==
    [][(up /\ up' /\ CacheCoherent(W) /\ ~Pull(TRUE)) => CacheCoherent(W')]_vars

\* the idents of the Index are the idents of the items of the head tree:
\* check_data counts no discrepancy
InSync(w) ==
    /\ check_data(w).missing_from_search = 0
    /\ check_data(w).missing_from_store = 0

\* C37: after a pull that merges in items created, modified or deleted on
\* the remote, the idents of the Index are the idents of the items of the
\* local head tree, with no rebuild in between.
C37_IndexFollowsPull ==
    [][(Pull(TRUE) /\ last'.res = "ok" /\ InSync(W)) => InSync(W')]_vars

\* C37, the part that holds: every command of a running engine but a pull
\* leaves the Index in step.
C37_IndexInStepOtherwise ==
    [][(up /\ up' /\ InSync(W) /\ ~Pull(TRUE)) => InSync(W')]_vars

\* a pull that follows a pull that succeeded, with nothing done locally and
\* nothing pushed to the remote in between
SecondPull ==
    /\ last.act = "Pull"
    /\ last.res = "ok"
    /\ fetchHead = remoteHead
    /\ Pull(TRUE)

\* C38: a second pull with no local or remote change in between (right after
\* a pull that made a merge commit, or with the local head ahead of the
\* remote) creates no commit and leaves the local head where it was.
C38_PullIdempotent ==
    [][SecondPull => (commits' = commits /\ localHead' = localHead)]_vars

\* C38, the part that holds: a second pull creates no commit when the local
\* head is the commit fetched.
C38_PullIdempotentAtRemoteHead ==
    [][(SecondPull /\ localHead = fetchHead)
       => (commits' = commits /\ localHead' = localHead)]_vars

\* World::do_world_action, ListOpen: the open rows of the Index, shown
ListOpen ==
    /\ up
    /\ SetW(W)
    /\ last' = [do_action(L("ListOpen", "ok", "none"), W,
                          <<Tag("content", "html")>>)
                EXCEPT !.list = search_open_hier(W)]

\* World::do_world_action, ListAll: every row of the Index, shown
ListAll ==
    /\ up
    /\ SetW(W)
    /\ last' = [do_action(L("ListAll", "ok", "none"), W,
                          <<Tag("content", "html")>>)
                EXCEPT !.list = DOMAIN W.index]

\* World::do_world_action, New: a raw item of the type, shown for editing
\* and kept nowhere; a type that is not registered is an error
New(type) ==
    /\ up
    /\ SetW(W)
    /\ last' = do_action(L("New", Res(type \in Types), "none"), W, for_edit)

\* World::do_world_action, NewChild: a raw item of the type with its base
\* set from the default base with the parent named, shown for editing; the
\* ident of the default base fails the assertion of set_from_serde
NewChild(type, parent) ==
    /\ up
    /\ SetW(W)
    /\ \E sf \in {set_from_serde(make_raw(type),
                                 [ident |-> unset_ident, type_name |-> type,
                                  can_be_context |-> FALSE])} :
           last' = do_action(L("NewChild", Res(type \in Types /\ sf.ok), "none"),
                             W, for_edit)

\* one replica with auto-link disabled: commands that write, and between
\* them every command that only reads
NextReadOnly ==
    \/ \E pfx \in LocalPrefixes : Startup(pfx, TRUE)
    \/ Stop
    \/ \E after \in ShowAfterDates : CreateTask(<<"t">>, after)
    \/ \E ident \in TaskPool : ItemAction(ident, "Close", <<>>)
    \/ \E ident \in BlockerPool, act \in {"Show", "Edit"} :
           ItemAction(ident, act, <<>>)
    \/ \E now \in Times : ListReady(now)
    \/ ListOpen
    \/ ListAll
    \/ \E type \in Types \cup {"Other"} : New(type)
    \/ \E type \in Types \cup {"Other"} : NewChild(type, task_ident_1)
    \/ CheckData

InitReadOnly == InitFrom({TRUE}, {FALSE}, TaskSeedCommits)

SpecReadOnly == InitReadOnly /\ [][NextReadOnly]_vars

\* a step of a command that only reads
ReadOnlyStep ==
    \/ \E ident \in BlockerPool, act \in {"Show", "Edit"} :
           ItemAction(ident, act, <<>>)
    \/ \E now \in Times : ListReady(now)
    \/ ListOpen
    \/ ListAll
    \/ \E type \in Types \cup {"Other"} : New(type)
    \/ \E type \in Types \cup {"Other"} : NewChild(type, task_ident_1)
    \/ CheckData

\* C39: with auto-link disabled, Show, Edit, ListReady, ListOpen, ListAll,
\* New, NewChild and CheckData create no commit, write no row of the Index,
\* do not advance the ident counter and do not change the needs-push flag.
C39_ReadOnly ==
    [][(~autoLink /\ ReadOnlyStep)
       => /\ commits' = commits
          /\ localHead' = localHead
          /\ index' = index
          /\ next_ident_num' = next_ident_num
          /\ needs_push' = needs_push]_vars

\* a command that only reads has answered in a world that has written: a
\* New after a task was created, while the push is still due
C39_Witness ==
    /\ ~autoLink
    /\ last.act = "New"
    /\ last.res = "ok"
    /\ next_ident_num > 0
    /\ needs_push
    /\ Cardinality(DOMAIN index) > 2

\* ItemLink::new: ItemLinkData::Unresolved(ident)
Unresolved(ident) == [data |-> "Unresolved", ident |-> ident, live |-> FALSE]

\* ItemLinkData::Resolved(ItemWeakRef::from(&ir)): a weak pointer to the item
\* object the known cache holds under the key; live while the cache, the one
\* lasting owner of the object, keeps it
Resolved(key) == [data |-> "Resolved", ident |-> key, live |-> TRUE]

\* the item objects under the keys are dropped: a weak pointer to one of
\* them can no longer be upgraded
expire(link, keys) ==
    IF link.data = "Resolved" /\ link.ident \in keys
    THEN [link EXCEPT !.live = FALSE]
    ELSE link

\* ItemWeakRef::to_rcrc: [ok, item], the upgrade of the weak pointer or the
\* error "invalid weak pointer"
to_rcrc(w, link) ==
    IF link.live
    THEN [ok |-> TRUE, item |-> w.known[link.ident]]
    ELSE [ok |-> FALSE, item |-> make_raw("Simple")]

\* a faulty resolve_link that fetches the item again when the weak pointer
\* has expired
resolve_link_refetching(w, link) ==
    IF link.data = "Unresolved" \/ ~link.live
    THEN The({IF ~g.ok
              THEN [ok |-> FALSE, w |-> g.w, link |-> link, item |-> g.item,
                    lookups |-> 1, note |-> "none"]
              ELSE [ok |-> TRUE, w |-> g.w,
                    link |-> Resolved(known_key(g, link.ident)),
                    item |-> g.item, lookups |-> 1, note |-> "none"] :
              g \in {get_item(w, link.ident)}})
    ELSE [ok |-> TRUE, w |-> w, link |-> link, item |-> w.known[link.ident],
          lookups |-> 0, note |-> "none"]

\* ItemLink::resolve_link: [ok, w, link, item, lookups, note]; lookups counts
\* the calls of World::get_item
resolve_link(w, link) ==
    IF link.data = "Unresolved"
    THEN The({IF ~g.ok
              THEN [ok |-> FALSE, w |-> g.w, link |-> link, item |-> g.item,
                    lookups |-> 1, note |-> "none"]
              ELSE [ok |-> TRUE, w |-> g.w,
                    link |-> Resolved(known_key(g, link.ident)),
                    item |-> g.item, lookups |-> 1, note |-> "none"] :
              g \in {get_item(w, link.ident)}})
    ELSE The({[ok |-> r.ok, w |-> w, link |-> link, item |-> r.item,
               lookups |-> 0,
               note |-> IF r.ok THEN "none" ELSE "invalid weak pointer"] :
              r \in {to_rcrc(w, link)}})

\* the record of a step of the holder of a link
LinkL(act, ok, note, link, item, lookups) ==
    [act |-> act, res |-> Res(ok), note |-> note, tags |-> <<>>, list |-> {},
     now |-> 0, link |-> link, item |-> item, lookups |-> lookups]

HasLink == "link" \in DOMAIN last

\* a caller of the running engine makes a link to an ident
NewLink(ident) ==
    /\ up
    /\ SetW(W)
    /\ last' = LinkL("new", TRUE, "none", Unresolved(ident), make_raw("Simple"), 0)

\* World::resolve_link on the link the caller holds
ResolveLink ==
    /\ up
    /\ HasLink
    /\ \E r \in {resolve_link(W, last.link)} :
           /\ SetW(r.w)
           /\ last' = LinkL("resolve_link", r.ok, r.note, r.link, r.item,
                            r.lookups)

\* World::get_all while the caller holds the link: Store::clear_known drops
\* every item object before the items are loaded again
Rebuild ==
    /\ up
    /\ HasLink
    /\ \E r \in {get_all(W)} :
           /\ SetW(r.w)
           /\ last' = LinkL("GetAll", r.ok, "none",
                            expire(last.link, DOMAIN known), last.item, 0)

\* a command on an item while the caller holds the link: the update changes
\* the item object in place, the delete takes it out of the cache
Command(r, act) ==
    /\ up
    /\ HasLink
    /\ SetW(r.w)
    /\ last' = LinkL(act, r.ok, "none",
                     expire(last.link, DOMAIN known \ DOMAIN r.w.known),
                     last.item, 0)

\* one replica and a caller that holds one link at a time
NextResolve ==
    \/ \E pfx \in LocalPrefixes : Startup(pfx, TRUE)
    \/ Stop
    \/ \E ident \in LinkPool : NewLink(ident)
    \/ ResolveLink
    \/ Rebuild
    \/ Command(delete_item_action(W, remote_ident), "Delete")
    \/ Command(update_item_action(W, remote_ident, RequestBase(<<>>, "Simple"),
                                  UpdateVals(<<"x">>)), "Update")

SpecResolve == InitLinks /\ [][NextResolve]_vars

\* C32: resolving a resolved link again returns the same item object, the
\* one the cache holds, without a lookup in the store and leaves the link
\* as it is; when the item object has been dropped since, the resolution
\* fails with the invalid-reference error, looks nothing up, fetches nothing
\* and leaves the link as it is.
C32_ResolveMemoized ==
    [][(ResolveLink /\ last.link.data = "Resolved")
       => /\ last'.lookups = 0
          /\ last'.link = last.link
          /\ W' = W
          /\ IF last.link.live
             THEN /\ last'.res = "ok"
                  /\ last'.item = known[last.link.ident]
             ELSE /\ last'.res = "error"
                  /\ last'.note = "invalid weak pointer"]_vars

\* a resolution has failed on an expired weak pointer although the store
\* has the file of the ident
C32_Witness ==
    /\ HasLink
    /\ last.act = "resolve_link"
    /\ last.res = "error"
    /\ last.note = "invalid weak pointer"
    /\ last.link.data = "Resolved"
    /\ repo_has_file(W, path_from_ident(last.link.ident))
====
